---- MODULE Spec2Model ----
(***************************************************************************)
(* FormPilot: the resilience and orchestration layer.                      *)
(*                                                                         *)
(*   src/automation_agent.py  WebFormAutomationAgent                       *)
(*       _compute_backoff     adaptive backoff + circuit breaker           *)
(*       submit_activity      per-record attempt loop around agent.arun    *)
(*   src/orchestrator.py      FormAutomationOrchestrator.run_automation    *)
(*       the per-activity retry loop around submit_activity                *)
(*                                                                         *)
(* Durations are integers in milliseconds.  Wall-clock time is kept in     *)
(* whole seconds and relative to the two instants the code compares        *)
(* against: since_first_429 is  time.time() - _first_429_ts.               *)
(* Text is a tuple of one-character strings, so that `in` and .lower()     *)
(* are computed character by character.                                    *)
(***************************************************************************)
EXTENDS Integers, Sequences, FiniteSets, TLC

VARIABLES
    fast_mode,        \* WebFormAutomationAgent.fast_mode
    interactive,      \* run_automation(interactive=...)
    num_valid,        \* len(valid_activities)
    act,              \* position in `activities` of the activity being processed
    retry,            \* run_automation: `for retry in range(max_activity_retries)`
    attempt,          \* submit_activity: `for attempt in range(max_attempts)`
    pc,               \* position of the single thread of control
    error_msg,        \* str(e) of the exception being handled
    backoff,          \* the local `backoff` awaiting asyncio.sleep
    submit_result,    \* how the current submit_activity call ended
    status,           \* what run_automation printed for each activity
    _recent_429,      \* WebFormAutomationAgent._recent_429
    since_first_429,  \* time.time() - _first_429_ts, NoTs when it is None
    _circuit_open,    \* WebFormAutomationAgent._circuit_open
    since_last_429,   \* history (BackoffSpec): seconds since the latest signal
    sig,              \* history (BackoffSpec): the latest _compute_backoff call
    call,             \* history: counters of the current submit_activity call
    first_fatal,      \* history: the activity's first arun raised and was re-raised
    log,              \* history: events since the activity's latest arun failure
    process_mode,     \* run_automation(process_mode=...)
    batch_size,       \* run_automation(batch_size=...)
    activities_json,  \* what parser_agent.parse_activities returns
    activities,       \* run_automation: `activities`, the decoded records
    valid_activities, \* run_automation: positions in `activities` of the valid ones
    batches,          \* run_automation: `batches`
    batch_num,        \* run_automation: `batch_num`, 0 before the first batch
    batch_j,          \* run_automation: `j` + 1, 0 before the batch's first activity
    enrich_i,         \* ensure_private_descriptions: records already looked at
    mcp_tools,        \* WebFormAutomationAgent.mcp_tools
    outcome,          \* the exit path run_automation took, "running" before
    answer,           \* what input("Continue with next activity? (y/n): ") gave
    started,          \* history: the activities the dispatch loop took up, in order
    gen_calls,        \* history: calls of _desc_agent.arun
    cache_sets,       \* history: calls of _cache.set by the orchestrator
    private_desc,     \* the keys of the cache section 'private_desc'
    closes,           \* history: calls of automation_agent.close and mcp_tools.close
    activity,         \* RecordSpec: the raw record handed to normalize/validate
    normalized,       \* RecordSpec: results of successive _normalize_activity_keys
    validation,       \* RecordSpec: result of validate_activity_data
    title,            \* MatchSpec: _choose_tech_areas(title, ...)
    description,      \* MatchSpec: _choose_tech_areas(..., description, ...)
    tech_options,     \* MatchSpec: {'primary': [...], 'additional': [...]}
    choice,           \* MatchSpec: what _choose_tech_areas returned
    cache_file,       \* CacheSpec: the file .formpilot_cache.json
    data,             \* CacheSpec: _CacheStore.data, NoData before __init__
    cache_ret,        \* CacheSpec: how the latest call on the cache ended
    written,          \* history (CacheSpec): the value last set under each key
    cache_ops,        \* history (CacheSpec): calls made on the cache so far
    recs,             \* EnrichSpec: `activities` of ensure_private_descriptions
    rec_i,            \* EnrichSpec: records `for act in activities` has done
    gen_log,          \* history (EnrichSpec): the texts _desc_agent.arun was asked for
    limit_pc,         \* LimitSpec: position in the stages before dispatch
    handed,           \* LimitSpec: `valid_activities`, the records handed on
    heap,             \* PrepSpec: the dict objects, by identity
    reviewed,         \* PrepSpec: run_automation's `reviewed`, a place in heap
    given,            \* history (PrepSpec): the record as each submit call got it
    sent              \* history (PrepSpec): `activity_data` as each call sent it

corevars == <<fast_mode, interactive, num_valid, act, retry, attempt, pc, error_msg,
              backoff, submit_result, status, _recent_429, since_first_429,
              _circuit_open, since_last_429, sig, call, first_fatal, log>>
recvars == <<activity, normalized, validation>>
prepvars == <<heap, reviewed, given, sent>>
matchvars == <<title, description, tech_options, choice, prepvars>>
cachevars == <<cache_file, data, cache_ret, written, cache_ops>>
enrichvars == <<recs, rec_i, gen_log>>
limitvars == <<limit_pc, handed>>
storevars == <<cachevars, enrichvars, limitvars>>
harnessvars == <<recvars, matchvars, storevars>>
inputvars == <<process_mode, batch_size>>
stagevars == <<activities_json, activities, valid_activities, batches, enrich_i,
               gen_calls, cache_sets, private_desc>>
loopvars == <<batch_num, batch_j, started>>
connvars == <<mcp_tools, closes>>
endvars == <<outcome, answer>>

vars == <<corevars, harnessvars, inputvars, stagevars, loopvars, connvars, endvars>>

(***************************************************************************)
(* Bounds of the model                                                     *)
(***************************************************************************)
MaxActivities == 2
JitterSteps == 1
MaxSignals == 8
MaxEdits == 2
MaxPasses == 2
MaxOptions == 2
MaxCacheOps == 3
MaxRecords == 2
MaxCopies == 2

(***************************************************************************)
(* Program constants                                                       *)
(***************************************************************************)
max_attempts == 3
max_activity_retries == 3
WindowSecs == 60
MaxExponent == 6
CircuitThreshold == 5
CircuitFloorMs == 10000
MaxJitterMs == 1000

NoTs == -1
NoMsg == <<>>

Min(a, b) == IF a <= b THEN a ELSE b
Max(a, b) == IF a >= b THEN a ELSE b

RECURSIVE Pow2(_)
Pow2(n) == IF n <= 0 THEN 1 ELSE 2 * Pow2(n - 1)

(***************************************************************************)
(* Text                                                                    *)
(***************************************************************************)
UpperCase == <<"A", "B", "C", "D", "E", "F", "G", "H", "I", "J", "K", "L", "M",
               "N", "O", "P", "Q", "R", "S", "T", "U", "V", "W", "X", "Y", "Z">>
LowerCase == <<"a", "b", "c", "d", "e", "f", "g", "h", "i", "j", "k", "l", "m",
               "n", "o", "p", "q", "r", "s", "t", "u", "v", "w", "x", "y", "z">>

\* str.lower() on one character
lower_char(c) ==
    IF \E i \in 1..26 : UpperCase[i] = c
    THEN LowerCase[CHOOSE i \in 1..26 : UpperCase[i] = c]
    ELSE c

\* str.lower()
lower(s) == [i \in 1..Len(s) |-> lower_char(s[i])]

\* `sub in s`
Contains(sub, s) ==
    \E i \in 1..(Len(s) - Len(sub) + 1) : SubSeq(s, i, i + Len(sub) - 1) = sub

\* the literals the two except-handlers look for
TxtRate == <<"r", "a", "t", "e">>
Txt429 == <<"4", "2", "9">>
TxtRefCap == <<"R", "e", "f">>
TxtRef == <<"r", "e", "f">>
TxtSnapshot == <<"s", "n", "a", "p", "s", "h", "o", "t">>
TxtNotFound ==
    <<"n", "o", "t", " ", "f", "o", "u", "n", "d", " ", "i", "n", " ", "t", "h",
      "e", " ", "c", "u", "r", "r", "e", "n", "t", " ", "p", "a", "g", "e", " ",
      "s", "n", "a", "p", "s", "h", "o", "t">>

\* "Failed after 3 attempts due to snapshot errors"
ExhaustedMsg ==
    <<"F", "a", "i", "l", "e", "d", " ", "a", "f", "t", "e", "r", " ", "3", " ",
      "a", "t", "t", "e", "m", "p", "t", "s", " ", "d", "u", "e", " ", "t", "o",
      " ", "s", "n", "a", "p", "s", "h", "o", "t", " ", "e", "r", "r", "o", "r",
      "s">>

\* Texts the executor may fail with
Msg429 == <<"4", "2", "9", " ", "b", "u", "s", "y">>
MsgNotFound == <<"e", "5", " ">> \o TxtNotFound
MsgRef == <<"R", "e", "f", " ", "e", "5", " ", "g", "o", "n", "e">>
MsgBoth == <<"R", "a", "t", "e", " ", "l", "i", "m", "i", "t", ":", " ", "R", "e", "f">>
MsgFatal == <<"H", "T", "T", "P", " ", "5", "0", "0">>
MsgLowerRef == <<"b", "a", "d", " ", "r", "e", "f">>

ExecutorErrors == {Msg429, MsgBoth, MsgRef, MsgNotFound, MsgFatal, MsgLowerRef}

(***************************************************************************)
(* Error classification                                                    *)
(***************************************************************************)
\* submit_activity: `'rate' in error_msg.lower() or '429' in error_msg`
IsRateLimit(msg) == Contains(TxtRate, lower(msg)) \/ Contains(Txt429, msg)

\* submit_activity:
\* `"not found in the current page snapshot" in error_msg or "Ref" in error_msg`
IsSnapshotError(msg) == Contains(TxtNotFound, msg) \/ Contains(TxtRefCap, msg)

\* HandledAs with the two tests in the other order
HandledAs_SnapshotFirst(msg) ==
    IF IsSnapshotError(msg) THEN "StaleReference"
    ELSE IF IsRateLimit(msg) THEN "Overload"
    ELSE "Fatal"

\* submit_activity, the except-handler's if-chain: which branch handles msg
HandledAs(msg) ==
    IF IsRateLimit(msg) THEN "Overload"
    ELSE IF IsSnapshotError(msg) THEN "StaleReference"
    ELSE "Fatal"

\* run_automation: `"snapshot" in error_msg.lower() or "ref" in error_msg.lower()`
OrchIsSnapshot(msg) == Contains(TxtSnapshot, lower(msg)) \/ Contains(TxtRef, lower(msg))

\* run_automation: `'rate' in error_msg.lower() or '429' in error_msg`
OrchIsRate(msg) == Contains(TxtRate, lower(msg)) \/ Contains(Txt429, msg)

(***************************************************************************)
(* _compute_backoff                                                        *)
(***************************************************************************)
\* __init__: _rate_backoff_base, 0.5 s, or 0.25 s in fast mode
rate_backoff_base(fast) == IF fast THEN 250 ELSE 500

\* WindowExpired with `>=` for `>`
WindowExpired_Inclusive(age) == age = NoTs \/ age >= WindowSecs

\* `self._first_429_ts is None or (now - (self._first_429_ts or 0)) > 60`
WindowExpired(age) == age = NoTs \/ age > WindowSecs

\* Exponent without the cap at 6
Exponent_Uncapped(count) == Max(count - 1, 0)

\* `exponent = min(max(self._recent_429 - 1, 0), 6)`
Exponent(count) == Min(Max(count - 1, 0), MaxExponent)

\* Sustained with `>` for `>=`
Sustained_Strict(count) == count > CircuitThreshold

\* `if self._recent_429 >= 5`
Sustained(count) == count >= CircuitThreshold

\* BackoffOf with the floor applied only when the circuit trips (count == 5)
BackoffOf_FloorOnce(base, count) ==
    LET b == base * Pow2(Exponent(count))
    IN  IF count = CircuitThreshold THEN Max(b, CircuitFloorMs) ELSE b

\* `backoff = base * 2**exponent`, then `max(backoff, 10.0)` on sustained 429s
BackoffOf(base, count) ==
    LET b == base * Pow2(Exponent(count))
    IN  IF Sustained(count) THEN Max(b, CircuitFloorMs) ELSE b

\* upper end of `random.uniform(0, min(1.0, backoff * 0.1))`
JitterMax(b) == Min(MaxJitterMs, b \div 10)

\* the draws of random.uniform the model takes: k/JitterSteps of the range
Jitter(b, k) == (k * JitterMax(b)) \div JitterSteps

\* ComputeBackoff without `self._circuit_open = False` in the window reset
ComputeBackoff_KeepsCircuit(count, age, open, base, k) ==
    LET expired == WindowExpired(age)
        count0 == IF expired THEN 0 ELSE count
        age0 == IF expired THEN 0 ELSE age
        count1 == count0 + 1
        b == BackoffOf(base, count1)
    IN  [recent |-> count1,
         age |-> age0,
         open |-> IF Sustained(count1) THEN TRUE ELSE open,
         backoff |-> b,
         delay |-> b + Jitter(b, k)]

\* One call of _compute_backoff with jitter draw k: the new controller
\* state, the delay before jitter and the returned delay.
ComputeBackoff(count, age, open, base, k) ==
    LET expired == WindowExpired(age)
        count0 == IF expired THEN 0 ELSE count
        age0 == IF expired THEN 0 ELSE age
        open0 == IF expired THEN FALSE ELSE open
        count1 == count0 + 1
        b == BackoffOf(base, count1)
    IN  [recent |-> count1,
         age |-> age0,
         open |-> IF Sustained(count1) THEN TRUE ELSE open0,
         backoff |-> b,
         delay |-> b + Jitter(b, k)]

\* wall-clock seconds added to an age; ages above the window are all alike
Advance(age, secs) == IF age = NoTs THEN NoTs ELSE Min(age + secs, WindowSecs + 1)

\* `backoff = self._compute_backoff()` with jitter draw k, called when `secs`
\* seconds have passed since the ages were last brought up to date
CallComputeBackoff(k, secs) ==
    LET r == ComputeBackoff(_recent_429, Advance(since_first_429, secs),
                            _circuit_open, rate_backoff_base(fast_mode), k)
    IN  /\ _recent_429' = r.recent
        /\ since_first_429' = r.age
        /\ _circuit_open' = r.open
        /\ backoff' = r.delay

\* wall-clock seconds one `await self.agent.arun(prompt)` may take: within
\* the window, or longer than the window
ArunSeconds == {0, WindowSecs + 1}

(***************************************************************************)
(* Records: _normalize_activity_keys and validate_activity_data            *)
(*                                                                         *)
(* A dict is the sequence of its items <<key, value>> in insertion order,  *)
(* with no key twice.  A value is the text of a Python literal.            *)
(***************************************************************************)
\* `k in d`
HasKey(d, k) == \E i \in 1..Len(d) : d[i][1] = k

\* `d[k]`, for a key of d
GetItem(d, k) == d[CHOOSE i \in 1..Len(d) : d[i][1] = k][2]

\* `d[k] = v`: a key already there keeps its place and takes the new value
SetItem(d, k, v) ==
    IF HasKey(d, k)
    THEN [i \in 1..Len(d) |-> IF d[i][1] = k THEN <<k, v>> ELSE d[i]]
    ELSE Append(d, <<k, v>>)

\* the values Python's `not v` holds of
Falsy == {"None", "''", "0", "[]"}

\* _normalize_activity_keys: `mapping`
mapping ==
    [k \in {"Activity Type", "Primary Technology Area",
            "Additional Technology Areas", "Private Description",
            "Number of Views", "Activity URL", "Target Audience",
            "Published Date"} |->
        CASE k = "Activity Type" -> "Category"
          [] k = "Primary Technology Area" -> "Main Technology"
          [] k = "Additional Technology Areas" -> "Additional Technologies"
          [] k = "Private Description" -> "Internal Notes"
          [] k = "Number of Views" -> "Views"
          [] k = "Activity URL" -> "URL"
          [] k = "Target Audience" -> "Audience"
          [] k = "Published Date" -> "Date"]

\* `mapping.get(k, k)`
MapKey(k) == IF k \in DOMAIN mapping THEN mapping[k] ELSE k

\* MapItems that writes the canonical name and keeps the item's own key too
RECURSIVE MapItems_KeepsLegacy(_, _)
MapItems_KeepsLegacy(items, acc) ==
    IF items = <<>> THEN acc
    ELSE MapItems_KeepsLegacy(Tail(items),
             SetItem(SetItem(acc, Head(items)[1], Head(items)[2]),
                     MapKey(Head(items)[1]), Head(items)[2]))

\* `for k, v in activity.items(): act[mapping.get(k, k)] = v`
RECURSIVE MapItems(_, _)
MapItems(items, acc) ==
    IF items = <<>> THEN acc
    ELSE MapItems(Tail(items), SetItem(acc, MapKey(Head(items)[1]), Head(items)[2]))

\* _normalize_activity_keys that defaults every Quantity Python holds false
_normalize_activity_keys_Falsy(raw) ==
    LET acc == MapItems(raw, <<>>)
    IN  IF ~HasKey(acc, "Quantity") \/ GetItem(acc, "Quantity") \in Falsy
        THEN SetItem(acc, "Quantity", "1")
        ELSE acc

\* _normalize_activity_keys
_normalize_activity_keys(raw) ==
    LET acc == MapItems(raw, <<>>)
    IN  IF ~HasKey(acc, "Quantity") \/ GetItem(acc, "Quantity") \in {"None", "''"}
        THEN SetItem(acc, "Quantity", "1")
        ELSE acc

\* validate_activity_data: `required_fields`
required_fields ==
    <<"Category", "Main Technology", "Title", "Description", "Internal Notes",
      "URL", "Date", "Quantity", "Audience">>

\* validate_activity_data: (len(missing_fields) == 0, missing_fields)
validate_activity_data(raw) ==
    LET acc == _normalize_activity_keys(raw)
        Missing(field) == ~HasKey(acc, field) \/ GetItem(acc, field) \in Falsy
        missing_fields == SelectSeq(required_fields, Missing)
    IN  [ok |-> Len(missing_fields) = 0, missing |-> missing_fields]

\* The records a parse may produce: the eleven fields the parser is asked
\* for, in its order, each written in one of a few shapes
FieldNames ==
    <<"Category", "Main Technology", "Additional Technologies", "Title",
      "Description", "Internal Notes", "Views", "URL", "Audience", "Date",
      "Quantity">>

\* the legacy synonym of a canonical name, "" when it has none
LegacyOf(c) ==
    IF \E l \in DOMAIN mapping : mapping[l] = c
    THEN CHOOSE l \in DOMAIN mapping : mapping[l] = c
    ELSE ""

\* the items field c contributes to a record, by shape
Items(c, shape) ==
    CASE shape = "canon" -> <<(<<c, IF c = "Quantity" THEN "2" ELSE "'a'">>)>>
      [] shape = "absent" -> <<>>
      [] shape = "empty" -> <<(<<c, "''">>)>>
      [] shape = "none" -> <<(<<c, "None">>)>>
      [] shape = "zero" -> <<(<<c, "0">>)>>
      [] shape = "legacy" -> <<(<<LegacyOf(c), "'b'">>)>>
      [] shape = "legacy_empty" -> <<(<<LegacyOf(c), "''">>)>>
      [] shape = "canon_legacy" -> <<(<<c, "'a'">>), (<<LegacyOf(c), "'b'">>)>>
      [] shape = "legacy_canon" -> <<(<<LegacyOf(c), "'b'">>), (<<c, "'a'">>)>>

ShapesOf(c) ==
    {"absent", "empty", "none", "zero"} \cup
    (IF LegacyOf(c) = "" THEN {}
     ELSE {"legacy", "legacy_empty", "canon_legacy", "legacy_canon"})

\* the record whose fields in DOMAIN sh have the shapes sh gives them, all
\* other fields being present under their canonical names
RECURSIVE BuildRecord(_, _)
BuildRecord(sh, i) ==
    IF i > Len(FieldNames) THEN <<>>
    ELSE Items(FieldNames[i], IF i \in DOMAIN sh THEN sh[i] ELSE "canon")
         \o BuildRecord(sh, i + 1)

\* a record with every field under its canonical name
FullRecord == BuildRecord(<<>>, 1)

(***************************************************************************)
(* run_automation: parsing the parser's answer                             *)
(*                                                                         *)
(* The answer is a sequence of tokens: "[", "]", ",", the code "fence", a  *)
(* line break ("eol"), the word json, prose, and JSON values (a number,  *)
(* or a record mapping named by the sample record it denotes).            *)
(***************************************************************************)
ElementTokens == {"rec_full", "rec_no_url", "rec_no_notes", "5"}

\* str.strip(): line breaks at both ends removed
\* what str.strip() removes: the end of line of an answer, the blank of a text
Whitespace == {"eol", " "}

RECURSIVE lstrip(_)
lstrip(s) == IF s # <<>> /\ Head(s) \in Whitespace THEN lstrip(Tail(s)) ELSE s

RECURSIVE rstrip(_)
rstrip(s) ==
    IF s # <<>> /\ s[Len(s)] \in Whitespace THEN rstrip(SubSeq(s, 1, Len(s) - 1)) ELSE s

strip(s) == rstrip(lstrip(s))

\* s.find(t) + 1: the first position of token t, 0 when there is none
find(s, t) ==
    IF \E i \in 1..Len(s) : s[i] = t
    THEN CHOOSE i \in 1..Len(s) : s[i] = t /\ \A k \in 1..(i - 1) : s[k] # t
    ELSE 0

\* s.rfind(t) + 1
rfind(s, t) ==
    IF \E i \in 1..Len(s) : s[i] = t
    THEN CHOOSE i \in 1..Len(s) : s[i] = t /\ \A k \in (i + 1)..Len(s) : s[k] # t
    ELSE 0

\* _extract_json_array: the code-fence branch
StripFence(s) ==
    LET s1 == IF find(s, "eol") # 0 THEN SubSeq(s, find(s, "eol") + 1, Len(s)) ELSE s
        s2 == IF s1 # <<>> /\ s1[Len(s1)] = "fence"
              THEN SubSeq(s1, 1, Len(s1) - 1) ELSE s1
        s3 == strip(s2)
    IN  IF Len(s3) >= 2 /\ s3[1] = "json" /\ s3[2] = "eol"
        THEN SubSeq(s3, 3, Len(s3)) ELSE s3

\* _extract_json_array
_extract_json_array(raw) ==
    LET s0 == strip(raw)
        s == IF s0 # <<>> /\ s0[1] = "fence" THEN StripFence(s0) ELSE s0
    IN  IF find(s, "[") # 0 /\ find(s, "]") # 0
        THEN SubSeq(s, find(s, "["), rfind(s, "]"))
        ELSE s

\* json.loads: the value decoded, or JSONDecodeError
loads(text) ==
    LET w == SelectSeq(text, LAMBDA t : t # "eol")
        inner == SubSeq(w, 2, Len(w) - 1)
        wellformed ==
            \/ inner = <<>>
            \/ /\ Len(inner) % 2 = 1
               /\ \A i \in 1..Len(inner) :
                    IF i % 2 = 1 THEN inner[i] \in ElementTokens ELSE inner[i] = ","
    IN  IF Len(w) = 1 /\ w[1] \in ElementTokens
        THEN [error |-> FALSE, type |-> IF w[1] = "5" THEN "int" ELSE "dict",
              elems |-> <<>>]
        ELSE IF Len(w) >= 2 /\ w[1] = "[" /\ w[Len(w)] = "]" /\ wellformed
        THEN [error |-> FALSE, type |-> "list",
              elems |-> SelectSeq(inner, LAMBDA t : t # ",")]
        ELSE [error |-> TRUE, type |-> "JSONDecodeError", elems |-> <<>>]

\* the JSON text of a list of values
RECURSIVE Commas(_)
Commas(es) ==
    IF Len(es) <= 1 THEN es ELSE <<Head(es), ",">> \o Commas(Tail(es))

Array(es) == <<"[">> \o Commas(es) \o <<"]">>

\* the lists of at most n values
RECURSIVE Lists(_)
Lists(n) ==
    IF n = 0 THEN {<<>>}
    ELSE Lists(n - 1) \cup
         {Append(es, e) : es \in {l \in Lists(n - 1) : Len(l) = n - 1},
                          e \in ElementTokens}

\* `activities` before it is assigned
NoActivities == [type |-> "unset", elems |-> <<>>]

\* `activities_json` before it is assigned
NotParsed == [type |-> "unset", text |-> <<>>]

\* what `response.content` of the parser agent may be: None, or a text
\* holding an array bare, in prose, in a code fence; or no array at all
NoContent == [type |-> "NoneType", text |-> <<>>]

ParserOutputs ==
    {[type |-> "str", text |-> Array(es)] : es \in Lists(MaxActivities)} \cup
    {[type |-> "str", text |-> t] : t \in
        {<<"prose", "eol">> \o Array(<<"rec_full">>) \o <<"eol", "prose">>,
         <<"fence", "json", "eol">> \o Array(<<"rec_full">>) \o <<"eol", "fence", "eol">>,
         <<"fence", "eol", "json", "eol">> \o Array(<<"rec_no_url">>) \o <<"fence">>,
         <<"prose">>,
         <<"[", "rec_full">>,
         Array(<<"rec_full">>) \o <<"prose", "[", "prose", "]">>,
         <<"5">>,
         <<"rec_full">>}} \cup
    {NoContent}

\* the record a token denotes
SampleRecord(tok) ==
    CASE tok = "rec_full" -> FullRecord
      [] tok = "rec_no_url" -> BuildRecord((8 :> "absent"), 1)
      [] tok = "rec_no_notes" -> BuildRecord((6 :> "absent"), 1)
      [] OTHER -> <<>>

\* the Python value a token decodes to
Element(tok) ==
    [kind |-> IF tok = "5" THEN "int" ELSE "dict", items |-> SampleRecord(tok)]

(***************************************************************************)
(* submit_activity: the attempt loop                                       *)
(***************************************************************************)
NewCall == [invokes |-> 0, retryable |-> TRUE, succeeded |-> FALSE,
            after_success |-> 0]

\* one more step (arun, sleep, snapshot) of the current call; the steps taken
\* after a response was received are counted apart
Step(c) == IF c.succeeded THEN [c EXCEPT !.after_success = @ + 1] ELSE c

\* OnResponse without the `return`: the loop goes on after a response
OnResponse_NoReturn(a) ==
    IF a + 1 < max_attempts
    THEN [pc |-> "arun", result |-> "running", attempt |-> a + 1]
    ELSE [pc |-> "submitted", result |-> "None", attempt |-> a + 1]

\* `return getattr(response, 'content', None)`
OnResponse(a) == [pc |-> "submitted", result |-> "content", attempt |-> a]

\* Continue that starts another attempt whatever the attempt number
Continue_Again(a) == [pc |-> "arun", result |-> "running", attempt |-> a + 1]

\* `continue`, and the end of the for loop: the function falls off its end
Continue(a) ==
    IF a + 1 < max_attempts
    THEN [pc |-> "arun", result |-> "running", attempt |-> a + 1]
    ELSE [pc |-> "submitted", result |-> "None", attempt |-> a + 1]

\* HandledAs, tabulated for the texts the executor fails with
HandledAsOf == [msg \in ExecutorErrors |-> HandledAs(msg)]

\* ExceptBranch that backs off on a stale reference as on an overload
ExceptBranch_StaleBacksOff(msg, a) ==
    CASE HandledAsOf[msg] \in {"Overload", "StaleReference"} -> "backoff"
      [] OTHER -> "reraise"

\* the except-handler of the attempt loop: what it does with msg at attempt a
ExceptBranch(msg, a) ==
    CASE HandledAsOf[msg] = "Overload" -> "backoff"
      [] HandledAsOf[msg] = "StaleReference" ->
            IF a < max_attempts - 1 THEN "resnapshot" ELSE "raise_exhausted"
      [] OTHER -> "reraise"

\* run_automation calls submit_activity(reviewed, ...); the statements before
\* the attempt loop prepare the prompt
SubmitCall ==
    /\ pc = "submit"
    /\ pc' = "arun"
    /\ attempt' = 0
    /\ submit_result' = "running"
    /\ error_msg' = NoMsg
    /\ call' = NewCall
    /\ log' = IF log = <<>> THEN log ELSE Append(log, [ev |-> "submit"])
    /\ UNCHANGED <<fast_mode, interactive, num_valid, act, retry, backoff, status,
                   _recent_429, since_first_429, _circuit_open, since_last_429,
                   sig, first_fatal>>
    /\ UNCHANGED <<harnessvars, inputvars, stagevars, loopvars, connvars, endvars>>

\* `response = await self.agent.arun(prompt)` returns
ArunReturns ==
    /\ pc = "arun"
    /\ \E secs \in ArunSeconds : since_first_429' = Advance(since_first_429, secs)
    /\ LET n == OnResponse(attempt)
       IN  /\ pc' = n.pc
           /\ submit_result' = n.result
           /\ attempt' = n.attempt
    /\ call' = [Step(call) EXCEPT !.invokes = @ + 1, !.succeeded = TRUE]
    /\ error_msg' = NoMsg
    /\ log' = <<>>
    /\ UNCHANGED <<fast_mode, interactive, num_valid, act, retry, backoff, status,
                   _recent_429, _circuit_open, since_last_429, sig, first_fatal>>
    /\ UNCHANGED <<harnessvars, inputvars, stagevars, loopvars, connvars, endvars>>

\* `await self.agent.arun(prompt)` raises e; the handler runs up to its
\* first await or raise
ArunRaises ==
    /\ pc = "arun"
    /\ \E msg \in ExecutorErrors, secs \in ArunSeconds, k \in 0..JitterSteps :
         LET branch == ExceptBranch(msg, attempt)
             failed == [ev |-> "fail", msg |-> msg, attempt |-> attempt]
         IN  /\ call' = [Step(call) EXCEPT !.invokes = @ + 1,
                                           !.retryable = @ /\ branch # "reraise"]
             /\ first_fatal' = IF retry = 0 /\ attempt = 0
                               THEN branch = "reraise" ELSE first_fatal
             /\ CASE branch = "backoff" ->
                       /\ CallComputeBackoff(k, secs)
                       /\ pc' = "rate_sleep"
                       /\ error_msg' = msg
                       /\ submit_result' = submit_result
                       /\ log' = <<failed, [ev |-> "backoff", d |-> backoff']>>
                  [] branch = "resnapshot" ->
                       /\ since_first_429' = Advance(since_first_429, secs)
                       /\ pc' = "stale_snapshot"
                       /\ error_msg' = msg
                       /\ submit_result' = submit_result
                       /\ log' = <<failed>>
                       /\ UNCHANGED <<_recent_429, _circuit_open, backoff>>
                  [] branch = "raise_exhausted" ->
                       /\ since_first_429' = Advance(since_first_429, secs)
                       /\ pc' = "orch_except"
                       /\ error_msg' = ExhaustedMsg
                       /\ submit_result' = "raised_exhausted"
                       /\ log' = <<failed, [ev |-> "raise", exhausted |-> TRUE]>>
                       /\ UNCHANGED <<_recent_429, _circuit_open, backoff>>
                  [] OTHER ->
                       /\ since_first_429' = Advance(since_first_429, secs)
                       /\ pc' = "orch_except"
                       /\ error_msg' = msg
                       /\ submit_result' = "raised_error"
                       /\ log' = <<failed, [ev |-> "raise", exhausted |-> FALSE]>>
                       /\ UNCHANGED <<_recent_429, _circuit_open, backoff>>
    /\ UNCHANGED <<fast_mode, interactive, num_valid, act, retry, attempt, status,
                   since_last_429, sig>>
    /\ UNCHANGED <<harnessvars, inputvars, stagevars, loopvars, connvars, endvars>>

\* RateSleep sleeping the base delay instead of the computed one
RateSleep_Base ==
    /\ pc = "rate_sleep"
    /\ pc' = "rate_snapshot"
    /\ call' = Step(call)
    /\ log' = Append(log, [ev |-> "sleep", d |-> rate_backoff_base(fast_mode)])
    /\ UNCHANGED <<fast_mode, interactive, num_valid, act, retry, attempt, error_msg,
                   backoff, submit_result, status, _recent_429, since_first_429,
                   _circuit_open, since_last_429, sig, first_fatal>>
    /\ UNCHANGED <<harnessvars, inputvars, stagevars, loopvars, connvars, endvars>>

\* `await asyncio.sleep(backoff)` in the rate-limit branch
RateSleep ==
    /\ pc = "rate_sleep"
    /\ pc' = "rate_snapshot"
    /\ call' = Step(call)
    /\ log' = Append(log, [ev |-> "sleep", d |-> backoff])
    /\ UNCHANGED <<fast_mode, interactive, num_valid, act, retry, attempt, error_msg,
                   backoff, submit_result, status, _recent_429, since_first_429,
                   _circuit_open, since_last_429, sig, first_fatal>>
    /\ UNCHANGED <<harnessvars, inputvars, stagevars, loopvars, connvars, endvars>>

\* take_snapshot_and_retry, whose own failure is caught and printed, then
\* `continue`
TakeSnapshotAndContinue ==
    /\ \E ok \in BOOLEAN : log' = Append(log, [ev |-> "resync", ok |-> ok])
    /\ call' = Step(call)
    /\ LET n == Continue(attempt)
       IN  /\ pc' = n.pc
           /\ submit_result' = n.result
           /\ attempt' = n.attempt
    /\ error_msg' = NoMsg
    /\ backoff' = 0
    /\ UNCHANGED <<fast_mode, interactive, num_valid, act, retry, status,
                   _recent_429, since_first_429, _circuit_open, since_last_429,
                   sig, first_fatal>>
    /\ UNCHANGED <<harnessvars, inputvars, stagevars, loopvars, connvars, endvars>>

\* rate-limit branch: `take_snapshot_and_retry("Rate limit retry", attempt)`
RateSnapshot ==
    /\ pc = "rate_snapshot"
    /\ TakeSnapshotAndContinue

\* snapshot branch, attempt < max_attempts - 1:
\* `take_snapshot_and_retry(f"Submit activity: ...", attempt)`
StaleSnapshot ==
    /\ pc = "stale_snapshot"
    /\ TakeSnapshotAndContinue

(***************************************************************************)
(* run_automation: the dispatch loop                                       *)
(***************************************************************************)
\* what the operator may type at a prompt
Answers == {<<"y">>, <<"Y">>, <<"n">>, <<"y", "e", "s">>, <<>>}

NoAnswer == [asked |-> FALSE, raised |-> FALSE, typed |-> <<>>]

\* the fixed pauses of the retry handler, by branch and mode
SnapshotPause(fast) == IF fast THEN 250 ELSE 500
RetryPause(fast) == IF fast THEN 500 ELSE 1000

\* the handler's if-chain for retry < max_activity_retries - 1
OrchBranch(msg) ==
    IF OrchIsSnapshot(msg) THEN "snapshot"
    ELSE IF OrchIsRate(msg) THEN "rate"
    ELSE "other"

\* OrchBranch, tabulated for the texts submit_activity raises
OrchBranchOf == [msg \in ExecutorErrors \cup {ExhaustedMsg} |-> OrchBranch(msg)]

\* `for batch_num, batch in enumerate(batches, start=1)` and
\* `for j, activity in enumerate(batch)`: the next activity of the batch, or
\* the first of the next batch (after the pause between batches), or the end
\* of the batches and "Automation workflow completed!"
NextActivity ==
    /\ pc = "next_activity"
    /\ LET more == batch_num >= 1 /\ batch_j < Len(batches[batch_num])
           b == IF more THEN batch_num ELSE batch_num + 1
           n == IF more THEN batch_j + 1 ELSE 1
       IN  IF b <= Len(batches)
           THEN /\ batch_num' = b
                /\ batch_j' = n
                /\ act' = batches[b][n]
                /\ started' = Append(started, batches[b][n])
                /\ pc' = "submit"
                /\ outcome' = outcome
           ELSE /\ pc' = "cleanup"
                /\ outcome' = "completed"
                /\ UNCHANGED <<act, loopvars>>
    /\ retry' = 0
    /\ first_fatal' = FALSE
    /\ log' = <<>>
    /\ answer' = NoAnswer
    /\ UNCHANGED <<fast_mode, interactive, num_valid, attempt, error_msg, backoff,
                   submit_result, status, _recent_429, since_first_429,
                   _circuit_open, since_last_429, sig, call>>
    /\ UNCHANGED <<harnessvars, inputvars, stagevars, connvars>>

\* submit_activity returned: "Successfully processed", `break`
OrchSuccess ==
    /\ pc = "submitted"
    /\ pc' = "next_activity"
    /\ status' = [status EXCEPT ![act] = "success"]
    /\ UNCHANGED <<fast_mode, interactive, num_valid, act, retry, attempt, error_msg,
                   backoff, submit_result, _recent_429, since_first_429,
                   _circuit_open, since_last_429, sig, call, first_fatal, log>>
    /\ UNCHANGED <<harnessvars, inputvars, stagevars, loopvars, connvars, endvars>>

\* `except Exception as e` around submit_activity, up to its first await
OrchExcept ==
    /\ pc = "orch_except"
    /\ IF retry < max_activity_retries - 1
       THEN /\ pc' = "orch_sleep"
            /\ status' = status
            /\ CASE OrchBranchOf[error_msg] = "snapshot" ->
                      /\ backoff' = SnapshotPause(fast_mode)
                      /\ UNCHANGED <<_recent_429, since_first_429, _circuit_open>>
                 [] OrchBranchOf[error_msg] = "rate" ->
                      \E k \in 0..JitterSteps : CallComputeBackoff(k, 0)
                 [] OTHER ->
                      /\ backoff' = RetryPause(fast_mode)
                      /\ UNCHANGED <<_recent_429, since_first_429, _circuit_open>>
       ELSE /\ status' = [status EXCEPT ![act] = "failed"]
            /\ pc' = IF interactive /\ ~fast_mode THEN "ask_continue"
                     ELSE "next_activity"
            /\ UNCHANGED <<backoff, _recent_429, since_first_429, _circuit_open>>
    /\ UNCHANGED <<fast_mode, interactive, num_valid, act, retry, attempt, error_msg,
                   submit_result, since_last_429, sig, call, first_fatal, log>>
    /\ UNCHANGED <<harnessvars, inputvars, stagevars, loopvars, connvars, endvars>>

\* `await asyncio.sleep(backoff)` in the retry handler, then the next `retry`
OrchSleep ==
    /\ pc = "orch_sleep"
    /\ pc' = "submit"
    /\ retry' = retry + 1
    /\ log' = Append(log, [ev |-> "orch_sleep", d |-> backoff])
    /\ backoff' = 0
    /\ UNCHANGED <<fast_mode, interactive, num_valid, act, attempt, error_msg,
                   submit_result, status, _recent_429, since_first_429,
                   _circuit_open, since_last_429, sig, call, first_fatal>>
    /\ UNCHANGED <<harnessvars, inputvars, stagevars, loopvars, connvars, endvars>>

\* AskContinue that leaves the retry loop with `break` also when the
\* operator declines
AskContinue_Break ==
    /\ pc = "ask_continue"
    /\ \E raised \in BOOLEAN, typed \in Answers :
         /\ raised => typed = <<>>
         /\ answer' = [asked |-> TRUE, raised |-> raised, typed |-> typed]
         /\ pc' = "next_activity"
         /\ outcome' = outcome
    /\ UNCHANGED <<fast_mode, interactive, num_valid, act, retry, attempt, error_msg,
                   backoff, submit_result, status, _recent_429, since_first_429,
                   _circuit_open, since_last_429, sig, call, first_fatal, log>>
    /\ UNCHANGED <<harnessvars, inputvars, stagevars, loopvars, connvars>>

\* `continue_processing = input("Continue with next activity? (y/n): ").lower() == 'y'`,
\* True when input raises; `if not continue_processing: return`, else `break`
AskContinue ==
    /\ pc = "ask_continue"
    /\ \E raised \in BOOLEAN, typed \in Answers :
         LET continue_processing == IF raised THEN TRUE ELSE lower(typed) = <<"y">>
         IN  /\ raised => typed = <<>>
             /\ answer' = [asked |-> TRUE, raised |-> raised, typed |-> typed]
             /\ pc' = IF continue_processing THEN "next_activity" ELSE "cleanup"
             /\ outcome' = IF continue_processing THEN outcome ELSE "declined"
    /\ UNCHANGED <<fast_mode, interactive, num_valid, act, retry, attempt, error_msg,
                   backoff, submit_result, status, _recent_429, since_first_429,
                   _circuit_open, since_last_429, sig, call, first_fatal, log>>
    /\ UNCHANGED <<harnessvars, inputvars, stagevars, loopvars, connvars>>

\* `finally: await self.automation_agent.close()`; close() closes mcp_tools
\* when there is one, swallows its failure, and forgets it
Cleanup ==
    /\ pc = "cleanup"
    /\ pc' = "closed"
    /\ closes' = [agent |-> closes.agent + 1,
                  mcp |-> closes.mcp + (IF mcp_tools # "None" THEN 1 ELSE 0)]
    /\ mcp_tools' = "None"
    /\ UNCHANGED <<fast_mode, interactive, num_valid, act, retry, attempt, error_msg,
                   backoff, submit_result, status, _recent_429, since_first_429,
                   _circuit_open, since_last_429, sig, call, first_fatal, log>>
    /\ UNCHANGED <<harnessvars, inputvars, stagevars, loopvars, endvars>>

(***************************************************************************)
(* run_automation: the stages before the dispatch loop                     *)
(***************************************************************************)
\* CriticalError without the `finally`: the handler is the end of the run
CriticalError_NoFinally ==
    /\ pc' = "closed"
    /\ outcome' = "critical"

\* `except Exception as e: print("Critical error ...")`, then `finally`
CriticalError ==
    /\ pc' = "cleanup"
    /\ outcome' = "critical"

\* `await self.automation_agent.initialize()`: it connects and returns, or
\* raises before mcp_tools is assigned, in connect(), or after connecting
Initialize ==
    /\ pc = "initialize"
    /\ \E tools \in {"None", "created", "connected"}, raises \in BOOLEAN :
         /\ tools # "connected" => raises
         /\ mcp_tools' = tools
         /\ IF raises THEN CriticalError
            ELSE /\ pc' = "parse"
                 /\ outcome' = outcome
    /\ UNCHANGED <<fast_mode, interactive, num_valid, act, retry, attempt, error_msg,
                   backoff, submit_result, status, _recent_429, since_first_429,
                   _circuit_open, since_last_429, sig, call, first_fatal, log>>
    /\ UNCHANGED <<harnessvars, inputvars, stagevars, loopvars, closes, answer>>

\* `activities_json = await self.parser_agent.parse_activities(...)`
ParseActivities ==
    /\ pc = "parse"
    /\ \/ /\ activities_json' \in ParserOutputs
          /\ pc' = "decode"
          /\ outcome' = outcome
       \/ /\ activities_json' = activities_json
          /\ CriticalError
    /\ UNCHANGED <<fast_mode, interactive, num_valid, act, retry, attempt, error_msg,
                   backoff, submit_result, status, _recent_429, since_first_429,
                   _circuit_open, since_last_429, sig, call, first_fatal, log>>
    /\ UNCHANGED <<harnessvars, inputvars, activities, valid_activities, batches,
                   enrich_i, gen_calls, cache_sets, private_desc, loopvars,
                   connvars, answer>>

\* `if isinstance(activities_json, str)`: extract and json.loads, `return`
\* on JSONDecodeError; `else: activities = activities_json`
DecodeActivities ==
    /\ pc = "decode"
    /\ LET r == IF activities_json.type = "str"
                THEN loads(_extract_json_array(activities_json.text))
                ELSE [error |-> FALSE, type |-> activities_json.type, elems |-> <<>>]
       IN  IF r.error
           THEN /\ pc' = "cleanup"
                /\ outcome' = "parse_failed"
                /\ activities' = activities
           ELSE /\ pc' = "enrich"
                /\ outcome' = outcome
                /\ activities' = [type |-> r.type,
                                  elems |-> [i \in 1..Len(r.elems) |->
                                                Element(r.elems[i])]]
    /\ UNCHANGED <<fast_mode, interactive, num_valid, act, retry, attempt, error_msg,
                   backoff, submit_result, status, _recent_429, since_first_429,
                   _circuit_open, since_last_429, sig, call, first_fatal, log>>
    /\ UNCHANGED <<harnessvars, inputvars, activities_json, valid_activities, batches,
                   enrich_i, gen_calls, cache_sets, private_desc, loopvars,
                   connvars, answer>>

\* `bool(act.get(k))`
Truthy(d, k) == HasKey(d, k) /\ GetItem(d, k) \notin Falsy

\* `act.get(k, '')`
GetOr(d, k) == IF HasKey(d, k) THEN GetItem(d, k) ELSE "''"

\* ensure_private_descriptions: one turn of `for act in activities`.  A
\* value that is no list of mappings raises (TypeError, AttributeError); a
\* record with notes is passed over; otherwise the notes come from the cache,
\* or from _desc_agent.arun or the fallback and are then cached and saved
\* (the key is the pair: no text of these records holds a "|", and _hash
\* tells such pairs apart)
EnsurePrivateDescription ==
    /\ pc = "enrich"
    /\ activities.type # "list" \/ enrich_i < Len(activities.elems)
    /\ IF activities.type # "list" \/ activities.elems[enrich_i + 1].kind # "dict"
       THEN /\ CriticalError
            /\ UNCHANGED <<activities, enrich_i, gen_calls, cache_sets, private_desc>>
       ELSE LET d == activities.elems[enrich_i + 1].items
                key == <<GetOr(d, "Title"), GetOr(d, "Description")>>
                noted == [activities EXCEPT
                            !.elems[enrich_i + 1].items = SetItem(d, "Internal Notes", "'n'")]
            IN  /\ pc' = pc
                /\ outcome' = outcome
                /\ enrich_i' = enrich_i + 1
                /\ IF Truthy(d, "Internal Notes") \/ Truthy(d, "Private Description")
                   THEN UNCHANGED <<activities, gen_calls, cache_sets, private_desc>>
                   ELSE IF key \in private_desc
                   THEN /\ activities' = noted
                        /\ UNCHANGED <<gen_calls, cache_sets, private_desc>>
                   ELSE /\ activities' = noted
                        /\ gen_calls' = gen_calls + 1
                        /\ cache_sets' = cache_sets + 1
                        /\ private_desc' = private_desc \cup {key}
    /\ UNCHANGED <<fast_mode, interactive, num_valid, act, retry, attempt, error_msg,
                   backoff, submit_result, status, _recent_429, since_first_429,
                   _circuit_open, since_last_429, sig, call, first_fatal, log>>
    /\ UNCHANGED <<harnessvars, inputvars, activities_json, valid_activities, batches,
                   loopvars, connvars, answer>>

\* the end of ensure_private_descriptions, and enforce_char_limits: no text
\* of these records is longer than 1000 characters, so nothing is rewritten
EnforceCharLimits ==
    /\ pc = "enrich"
    /\ activities.type = "list"
    /\ enrich_i = Len(activities.elems)
    /\ pc' = "validate"
    /\ UNCHANGED <<fast_mode, interactive, num_valid, act, retry, attempt, error_msg,
                   backoff, submit_result, status, _recent_429, since_first_429,
                   _circuit_open, since_last_429, sig, call, first_fatal, log>>
    /\ UNCHANGED <<harnessvars, inputvars, stagevars, loopvars, connvars, endvars>>

\* ValidPositions that keeps every activity
ValidPositions_All(elems) == [i \in 1..Len(elems) |-> i]

\* `for i, activity in enumerate(normalized_activities)`: the positions of
\* the activities validate_activity_data accepts, in order
ValidPositions(elems) ==
    SelectSeq([i \in 1..Len(elems) |-> i],
              LAMBDA i : validate_activity_data(
                             _normalize_activity_keys(elems[i].items)).ok)

\* AfterValidation without `if not valid_activities: return`
AfterValidation_NoReturn(valid) == [pc |-> "make_batches", outcome |-> "running"]

\* `if not valid_activities: print(...); return`
AfterValidation(valid) ==
    IF valid = <<>>
    THEN [pc |-> "cleanup", outcome |-> "no_valid"]
    ELSE [pc |-> "make_batches", outcome |-> "running"]

\* "Validating activity data...": normalize and validate every activity
ValidateActivities ==
    /\ pc = "validate"
    /\ LET valid == ValidPositions(activities.elems)
           after == AfterValidation(valid)
       IN  /\ valid_activities' = valid
           /\ num_valid' = Len(valid)
           /\ status' = [i \in 1..Len(activities.elems) |->
                            IF \E k \in 1..Len(valid) : valid[k] = i
                            THEN "pending" ELSE "invalid"]
           /\ pc' = after.pc
           /\ outcome' = after.outcome
    /\ UNCHANGED <<fast_mode, interactive, act, retry, attempt, error_msg,
                   backoff, submit_result, _recent_429, since_first_429,
                   _circuit_open, since_last_429, sig, call, first_fatal, log>>
    /\ UNCHANGED <<harnessvars, inputvars, activities_json, activities, batches,
                   enrich_i, gen_calls, cache_sets, private_desc, loopvars,
                   connvars, answer>>

\* Slices taking one activity too many into each batch
Slices_Overlap(valid, size) ==
    [k \in 1..((Len(valid) + size - 1) \div size) |->
        SubSeq(valid, (k - 1) * size + 1, Min(k * size + 1, Len(valid)))]

\* `[valid_activities[i : i + batch_size] for i in range(0, len(valid_activities), batch_size)]`
Slices(valid, size) ==
    [k \in 1..((Len(valid) + size - 1) \div size) |->
        SubSeq(valid, (k - 1) * size + 1, Min(k * size, Len(valid)))]

\* the processing mode is settled and `batches` is built; range() raises
\* ValueError for a batch size of 0
MakeBatches ==
    /\ pc = "make_batches"
    /\ process_mode' = IF process_mode \in {"sequential", "batched"}
                       THEN process_mode ELSE "batched"
    /\ IF process_mode' = "sequential"
       THEN /\ batches' = [k \in 1..Len(valid_activities) |-> <<valid_activities[k]>>]
            /\ pc' = "next_activity"
            /\ outcome' = outcome
       ELSE IF batch_size = 0
       THEN /\ batches' = batches
            /\ CriticalError
       ELSE /\ batches' = Slices(valid_activities, batch_size)
            /\ pc' = "next_activity"
            /\ outcome' = outcome
    /\ UNCHANGED <<fast_mode, interactive, num_valid, act, retry, attempt, error_msg,
                   backoff, submit_result, status, _recent_429, since_first_429,
                   _circuit_open, since_last_429, sig, call, first_fatal, log>>
    /\ UNCHANGED <<harnessvars, batch_size, activities_json, activities,
                   valid_activities, enrich_i, gen_calls, cache_sets,
                   private_desc, loopvars, connvars, answer>>

\* what a call of submit_activity raises: an error its handler re-raises,
\* or the exhaustion of the snapshot retries
SubmitRaises == {ExhaustedMsg} \cup {msg \in ExecutorErrors : HandledAsOf[msg] = "Fatal"}

\* `await self.automation_agent.submit_activity(reviewed, ...)` as one step:
\* after n invocations of the executor it returns or raises
SubmitActivity ==
    /\ pc = "submit"
    /\ \E n \in 1..max_attempts :
         /\ call' = [NewCall EXCEPT !.invokes = n]
         /\ \/ /\ pc' = "submitted"
               /\ error_msg' = NoMsg
               /\ submit_result' = "content"
            \/ /\ n = max_attempts
               /\ pc' = "submitted"
               /\ error_msg' = NoMsg
               /\ submit_result' = "None"
            \/ /\ n = max_attempts
               /\ pc' = "orch_except"
               /\ error_msg' = ExhaustedMsg
               /\ submit_result' = "raised_exhausted"
            \/ \E msg \in SubmitRaises \ {ExhaustedMsg} :
               /\ pc' = "orch_except"
               /\ error_msg' = msg
               /\ submit_result' = "raised_error"
    /\ UNCHANGED <<fast_mode, interactive, num_valid, act, retry, attempt, backoff,
                   status, _recent_429, since_first_429, _circuit_open,
                   since_last_429, sig, first_fatal, log>>
    /\ UNCHANGED <<harnessvars, inputvars, stagevars, loopvars, connvars, endvars>>

(***************************************************************************)
(* The run: a constructed agent and the valid activities about to be       *)
(* dispatched                                                              *)
(***************************************************************************)
NoSig == [count |-> 0]

\* WebFormAutomationAgent.__init__
AgentInit ==
    /\ fast_mode \in BOOLEAN
    /\ _recent_429 = 0
    /\ since_first_429 = NoTs
    /\ _circuit_open = FALSE
    /\ since_last_429 = NoTs
    /\ sig = NoSig

NoValidation == [ok |-> FALSE, missing |-> <<>>, input |-> <<>>, done |-> FALSE]

\* the record harness is not in use
NoRecord ==
    /\ activity = <<>>
    /\ normalized = <<>>
    /\ validation = NoValidation

(***************************************************************************)
(* The option matcher: _choose_tech_areas.  Titles, descriptions and       *)
(* options are texts, sequences of characters; None is PyNone.             *)
(***************************************************************************)
PyNone == <<"None">>

Digits == <<"0", "1", "2", "3", "4", "5", "6", "7", "8", "9">>

\* the characters of the texts, in the order of their code points
CodePoints == <<" ", "#", ".">> \o Digits \o UpperCase \o <<"_">> \o LowerCase

\* the place of a character in that order
ord(c) == CHOOSE i \in 1..Len(CodePoints) : CodePoints[i] = c

\* `a < b` on str
RECURSIVE StrLess(_, _)
StrLess(a, b) ==
    IF b = <<>> THEN FALSE
    ELSE IF a = <<>> THEN TRUE
    ELSE IF Head(a) = Head(b) THEN StrLess(Tail(a), Tail(b))
    ELSE ord(Head(a)) < ord(Head(b))

\* what `\w` matches
IsWordChar(c) ==
    \E i \in 1..Len(CodePoints) : CodePoints[i] = c /\ c \notin {" ", "#", "."}

\* `set(re.findall(r"\w+", s))`: the maximal runs of word characters
Tokens(s) ==
    {SubSeq(s, i, j) : <<i, j>> \in
        {p \in (1..Len(s)) \X (1..Len(s)) :
            /\ p[1] <= p[2]
            /\ \A k \in p[1]..p[2] : IsWordChar(s[k])
            /\ p[1] = 1 \/ ~IsWordChar(s[p[1] - 1])
            /\ p[2] = Len(s) \/ ~IsWordChar(s[p[2] + 1])}}

\* `text = f"{title} {description}".lower()` of the stripped arguments
TextOf(t, d) == lower(strip(t) \o <<" ">> \o strip(d))

\* `score(opt)`, for the tokens of the text
score(opt, tokens) ==
    LET otoks == Tokens(lower(opt))
        overlap == Cardinality(tokens \cap otoks)
    IN  overlap + Cardinality({t \in otoks : t \in tokens})

\* the options of the forms, the titles and the descriptions of the records
OptCloud ==
    <<"C", "l", "o", "u", "d", " ", "C", "o", "m", "p", "u", "t", "i", "n",
      "g">>
OptWeb ==
    <<"W", "e", "b", " ", "D", "e", "v", "e", "l", "o", "p", "m", "e", "n",
      "t">>
OptPython == <<"P", "y", "t", "h", "o", "n">>
OptJavaScript == <<"J", "a", "v", "a", "S", "c", "r", "i", "p", "t">>
OptAzureFunctions ==
    <<"A", "z", "u", "r", "e", " ", "F", "u", "n", "c", "t", "i", "o", "n",
      "s">>
Catalogue == {OptCloud, OptWeb, OptPython, OptJavaScript, OptAzureFunctions}

\* options that differ from one another only in letter case, or are part
\* of another
OptWebShort == <<"W", "e", "b">>
OptWebLower == <<"w", "e", "b">>
CaseOptions == {OptWebShort, OptWebLower, OptWeb}
AllOptions == Catalogue \cup CaseOptions

TitleAzure ==
    <<"I", "n", "t", "r", "o", " ", "t", "o", " ", "A", "z", "u", "r", "e",
      " ", "F", "u", "n", "c", "t", "i", "o", "n", "s">>
Titles == {TitleAzure, <<>>}

DescPython ==
    <<"P", "y", "t", "h", "o", "n", " ", "a", "n", "d", " ", "s", "e", "r",
      "v", "e", "r", "l", "e", "s", "s">>
DescCloudWeb ==
    <<"W", "e", "b", " ", "o", "r", " ", "C", "l", "o", "u", "d">>
Descriptions == {DescPython, DescCloudWeb}

\* score and `<`, tabulated for these texts
ScoreOf ==
    [t \in Titles, d \in Descriptions |->
        [o \in AllOptions |-> score(o, Tokens(TextOf(t, d)))]]
StrLessOf == [a \in AllOptions, b \in AllOptions |-> StrLess(a, b)]

\* `<` on the tuples (score, opt)
TupleLess(x, y) == x[1] < y[1] \/ (x[1] = y[1] /\ StrLessOf[x[2], y[2]])

\* seq without its element at place i
Without(seq, i) == SubSeq(seq, 1, i - 1) \o SubSeq(seq, i + 1, Len(seq))

\* SortReverse without `reverse=True`
RECURSIVE SortReverse_Ascending(_)
SortReverse_Ascending(scored) ==
    IF scored = <<>> THEN <<>>
    ELSE LET i == CHOOSE i \in 1..Len(scored) :
                     \A k \in 1..Len(scored) : ~TupleLess(scored[k], scored[i])
         IN  <<scored[i]>> \o SortReverse_Ascending(Without(scored, i))

\* `scored.sort(reverse=True)` on a list of tuples (score, opt)
RECURSIVE SortReverse(_)
SortReverse(scored) ==
    IF scored = <<>> THEN <<>>
    ELSE LET i == CHOOSE i \in 1..Len(scored) :
                     \A k \in 1..Len(scored) : ~TupleLess(scored[i], scored[k])
         IN  <<scored[i]>> \o SortReverse(Without(scored, i))

\* `o in lst`
InList(o, lst) == \E i \in 1..Len(lst) : lst[i] = o

\* `for o in seq: if o not in acc: acc.append(o); if len(acc) >= n: break`
RECURSIVE AppendDistinct(_, _, _)
AppendDistinct(seq, acc, n) ==
    IF seq = <<>> THEN acc
    ELSE LET acc1 == IF InList(Head(seq), acc) THEN acc ELSE Append(acc, Head(seq))
         IN  IF Len(acc1) >= n THEN acc1 ELSE AppendDistinct(Tail(seq), acc1, n)

\* PadToTwo that appends nothing
PadToTwo_Unpadded(lst) == lst

\* `while len(lst) < 2: lst.append("")`
RECURSIVE PadToTwo(_)
PadToTwo(lst) == IF Len(lst) < 2 THEN PadToTwo(Append(lst, <<>>)) ELSE lst

\* _choose_tech_areas
_choose_tech_areas(t, d, opts) ==
    LET Score(o) == ScoreOf[t, d][o]
        additional_opts == opts.additional
        primary_opts == IF opts.primary = <<>> /\ additional_opts # <<>>
                        THEN additional_opts ELSE opts.primary
        scored_primary ==
            SortReverse([i \in 1..Len(primary_opts) |->
                            <<Score(primary_opts[i]), primary_opts[i]>>])
        primary_choice ==
            IF scored_primary # <<>> /\ scored_primary[1][1] > 0
            THEN scored_primary[1][2]
            ELSE IF primary_opts # <<>> THEN primary_opts[1]
            ELSE IF additional_opts # <<>> THEN additional_opts[1]
            ELSE PyNone
        candidates_for_add ==
            additional_opts \o
            SelectSeq(primary_opts, LAMBDA o : ~InList(o, additional_opts))
        kept == SelectSeq(candidates_for_add, LAMBDA o : o # primary_choice)
        scored_add == SortReverse([i \in 1..Len(kept) |-> <<Score(kept[i]), kept[i]>>])
        top == IF scored_add = <<>> THEN <<>>
               ELSE AppendDistinct([i \in 1..Len(scored_add) |-> scored_add[i][2]],
                                   <<>>, 2)
        pool == SelectSeq(additional_opts \o primary_opts,
                          LAMBDA o : o # primary_choice)
        additional_choices ==
            PadToTwo(IF Len(top) < 2 /\ pool # <<>>
                     THEN AppendDistinct(pool, top, 2) ELSE top)
        nonempty == SelectSeq(additional_choices, LAMBDA a : a # <<>>)
        cleaned_additional ==
            PadToTwo(IF nonempty = <<>> THEN <<>>
                     ELSE AppendDistinct(nonempty, <<>>, 2))
    IN  [main |-> IF primary_choice = PyNone THEN <<>> ELSE primary_choice,
         additional |-> cleaned_additional]

(***************************************************************************)
(* The cache: _CacheStore.  A JSON value is [kind, val]: the items of a    *)
(* dict (its keys are texts), the elements of a list, the words of a str.  *)
(***************************************************************************)
JDict(items) == [kind |-> "dict", val |-> items]
JList(elems) == [kind |-> "list", val |-> elems]
JStr(text) == [kind |-> "str", val |-> text]
JNull == [kind |-> "null", val |-> <<>>]

\* the text of a one-word string
Name(word) == <<word>>

\* `k in v`: "yes", "no", or "raise" (TypeError) for a value without `in`
PyIn(k, v) ==
    CASE v.kind = "dict" -> IF HasKey(v.val, k) THEN "yes" ELSE "no"
      [] v.kind = "list" ->
            IF \E i \in 1..Len(v.val) : v.val[i] = JStr(k) THEN "yes" ELSE "no"
      [] v.kind = "str" -> IF Contains(k, v.val) THEN "yes" ELSE "no"
      [] OTHER -> "raise"

\* `if k not in v: v[k] = default; changed = True`; item assignment with a
\* str key raises for everything but a dict
EnsureKey(v, k, default) ==
    LET c == PyIn(k, v)
    IN  IF c = "raise" THEN [raised |-> TRUE, v |-> v, changed |-> FALSE]
        ELSE IF c = "yes" THEN [raised |-> FALSE, v |-> v, changed |-> FALSE]
        ELSE IF v.kind = "dict"
        THEN [raised |-> FALSE, v |-> JDict(SetItem(v.val, k, default)),
              changed |-> TRUE]
        ELSE [raised |-> TRUE, v |-> v, changed |-> FALSE]

\* `self.data.update(json.loads(...))` inside `try ... except Exception:
\* pass`: the items of a dict are written over self.data; an empty list or
\* str changes nothing, and so does every value update() raises for
RECURSIVE UpdateItems(_, _)
UpdateItems(items, new) ==
    IF new = <<>> THEN items
    ELSE UpdateItems(SetItem(items, Head(new)[1], Head(new)[2]), Tail(new))

Update(d, v) == IF v.kind = "dict" THEN JDict(UpdateItems(d.val, v.val)) ELSE d

\* the file: missing, not decodable, or holding a JSON value
FileMissing == [kind |-> "missing", value |-> JNull]
FileGarbage == [kind |-> "garbage", value |-> JNull]
FileHolds(v) == [kind |-> "holds", value |-> v]

\* {'primary': [], 'additional': []}
EmptyTechOptions ==
    JDict(<< <<Name("primary"), JList(<<>>)>>, <<Name("additional"), JList(<<>>)>> >>)

\* the technology part of __init__: `if 'tech_options' not in
\* self.data['dropdowns']: ... else: ...` on dropdowns dd
EnsureTechOptions(dd) ==
    LET c == PyIn(Name("tech_options"), dd)
    IN  IF c # "yes" THEN EnsureKey(dd, Name("tech_options"), EmptyTechOptions)
        ELSE IF dd.kind # "dict" THEN [raised |-> TRUE, v |-> dd, changed |-> FALSE]
        ELSE LET r1 == EnsureKey(GetItem(dd.val, Name("tech_options")),
                                 Name("primary"), JList(<<>>))
                 r2 == EnsureKey(r1.v, Name("additional"), JList(<<>>))
             IN  IF r1.raised \/ r2.raised
                 THEN [raised |-> TRUE, v |-> dd, changed |-> FALSE]
                 ELSE [raised |-> FALSE,
                       v |-> JDict(SetItem(dd.val, Name("tech_options"), r2.v)),
                       changed |-> r1.changed \/ r2.changed]

\* _CacheStore.__init__ up to `if changed:`: whether it raised, self.data,
\* and `changed`
__init__(file) ==
    LET d0 == JDict(<< <<Name("private_desc"), JDict(<<>>)>>,
                       <<Name("rewrite850"), JDict(<<>>)>> >>)
        d1 == IF file.kind = "holds" THEN Update(d0, file.value) ELSE d0
        r1 == EnsureKey(d1, Name("dropdowns"), JDict(<<>>))
        r2 == EnsureTechOptions(GetItem(r1.v.val, Name("dropdowns")))
        r3 == EnsureKey(r2.v, Name("target_audience"), JList(<<>>))
    IN  IF r2.raised \/ r3.raised
        THEN [raised |-> TRUE, data |-> d1, changed |-> FALSE]
        ELSE [raised |-> FALSE,
              data |-> JDict(SetItem(r1.v.val, Name("dropdowns"), r3.v)),
              changed |-> r1.changed \/ r2.changed \/ r3.changed]

\* `get`: self.data.get(section, {}).get(key), None for a key not there; a
\* section that is no dict has no get() and raises
get(d, section, k) ==
    LET sect == IF HasKey(d.val, section) THEN GetItem(d.val, section) ELSE JDict(<<>>)
    IN  IF sect.kind # "dict" THEN [raised |-> TRUE, value |-> JNull]
        ELSE [raised |-> FALSE,
              value |-> IF HasKey(sect.val, k) THEN GetItem(sect.val, k) ELSE JNull]

\* set that writes the section anew
set_NewSection(d, section, k, v) ==
    [raised |-> FALSE,
     data |-> JDict(SetItem(d.val, section, JDict(<< <<k, v>> >>)))]

\* `set`: a new section is created; the item assignment raises for a
\* section that is no dict
set(d, section, k, v) ==
    LET sect == IF HasKey(d.val, section) THEN GetItem(d.val, section) ELSE JDict(<<>>)
    IN  IF sect.kind # "dict"
        THEN [raised |-> TRUE, data |-> d]
        ELSE [raised |-> FALSE,
              data |-> JDict(SetItem(d.val, section, JDict(SetItem(sect.val, k, v))))]

\* save without its `except Exception: pass`
save_Raises(file, d, how) ==
    [raised |-> how # "written",
     file |-> CASE how = "written" -> FileHolds(d)
                [] how = "refused" -> file
                [] how = "truncated" -> FileGarbage]

\* `save`: the file after write_text, which writes the data, or fails
\* before touching the file, or fails having truncated it; the exception
\* is swallowed
save(file, d, how) ==
    [raised |-> FALSE,
     file |-> CASE how = "written" -> FileHolds(d)
                [] how = "refused" -> file
                [] how = "truncated" -> FileGarbage]

\* how a write_text can end
Writes == {"written", "refused", "truncated"}

(***************************************************************************)
(* Enrichment: _sanitize_private_description and _hash.  A text is a       *)
(* sequence of characters; "hellip" stands for the ellipsis character,     *)
(* "emdash" for the em dash, "url" for "http://x".                         *)
(***************************************************************************)
\* `.replace("—", "-")`
ReplaceDashes(t) == [i \in 1..Len(t) |-> IF t[i] = "emdash" THEN "-" ELSE t[i]] \o <<>>

\* `re.sub(r"https?://\S+", "", t)`: a URL goes, with all that follows it
\* up to the next blank
RECURSIVE StripUrls(_, _)
StripUrls(t, inside) ==
    IF ~inside /\ \A i \in 1..Len(t) : t[i] # "url" THEN t
    ELSE IF t = <<>> THEN <<>>
    ELSE IF Head(t) = "url" THEN StripUrls(Tail(t), TRUE)
    ELSE IF inside /\ Head(t) # " " THEN StripUrls(Tail(t), TRUE)
    ELSE <<Head(t)>> \o StripUrls(Tail(t), FALSE)

\* the number of "." the text ends with
RECURSIVE TrailingDots(_)
TrailingDots(t) ==
    IF t # <<>> /\ t[Len(t)] = "." THEN 1 + TrailingDots(SubSeq(t, 1, Len(t) - 1))
    ELSE 0

\* `re.sub(r"(\.{3,}|…)$", "", t)`: a final ellipsis character goes, or else
\* a final run of three or more full stops
StripEllipsis(t) ==
    IF t # <<>> /\ t[Len(t)] = "hellip" THEN SubSeq(t, 1, Len(t) - 1)
    ELSE IF TrailingDots(t) >= 3 THEN SubSeq(t, 1, Len(t) - TrailingDots(t))
    ELSE t

\* `t.rfind(c, 0, max_len)` + 1
rfind_before(t, c, max_len) ==
    LET places == {i \in 1..Min(Len(t), max_len) : t[i] = c}
    IN  IF places = {} THEN 0 ELSE CHOOSE i \in places : \A k \in places : k <= i

\* "cap length preferring sentence boundary"
CapLength(t, max_len) ==
    IF Len(t) > max_len
    THEN LET dot == rfind_before(t, ".", max_len)
             cutoff == IF dot = 0 THEN rfind_before(t, " ", max_len) ELSE dot
         IN  strip(SubSeq(t, 1, IF cutoff # 0 THEN cutoff - 1 ELSE max_len))
    ELSE t

\* `t.rstrip('. ')`
RECURSIVE rstrip_dots(_)
rstrip_dots(t) ==
    IF t # <<>> /\ t[Len(t)] \in {".", " "} THEN rstrip_dots(SubSeq(t, 1, Len(t) - 1))
    ELSE t

\* "ensure ends with sentence punctuation"
EndSentence(t) ==
    IF t # <<>> /\ t[Len(t)] \in {".", "!", "?"} THEN t
    ELSE Append(rstrip_dots(t), ".")

\* _sanitize_private_description; `text or ""` for None
_sanitize_private_description(text, max_len) ==
    LET t0 == strip(ReplaceDashes(IF text = PyNone THEN <<>> ELSE text))
        t1 == strip(StripUrls(t0, FALSE))
        t2 == strip(StripEllipsis(t1))
    IN  EndSentence(CapLength(t2, max_len))

\* the default of max_len, and the length ensure_private_descriptions gives
DefaultMaxLen == 400

\* _hash: the bytes given to sha256, each part followed by "|"; the digest
\* of different bytes is taken to differ, so the bytes stand for it
RECURSIVE _hash(_)
_hash(parts) ==
    IF parts = <<>> THEN <<>>
    ELSE (IF Head(parts) = PyNone THEN <<>> ELSE Head(parts)) \o <<"|">>
         \o _hash(Tail(parts))

(***************************************************************************)
(* enforce_char_limits.  Texts keep their lengths: the limits are those of *)
(* the source.                                                             *)
(***************************************************************************)
\* `len(desc) > 1000`, `len(pdesc) > 1000`
HardLimit == 1000

\* the 850 of the truncations
TargetLen == 850

\* the first parts of the keys: 'desc850' and 'pdesc850'
Desc850 == <<"d", "e", "s", "c", "8", "5", "0">>
Pdesc850 == <<"p">> \o Desc850

\* `isinstance(v, str) and len(v) > 1000`, for a text or None
OverLong(v) == v # PyNone /\ Len(v) > HardLimit

\* `if not t.endswith(('.', '!', '?')): t += '.'`
AddStop(t) ==
    IF t # <<>> /\ t[Len(t)] \in {".", "!", "?"} THEN t ELSE Append(t, ".")

\* the `except Exception` branch for the Description: the first 850
\* characters, cut before their last full stop, or else their last blank
DescriptionFallback(desc) ==
    LET tmp == SubSeq(desc, 1, Min(Len(desc), TargetLen))
        dot == rfind_before(tmp, ".", Len(tmp))
        cutoff == IF dot = 0 THEN rfind_before(tmp, " ", Len(tmp)) ELSE dot
    IN  AddStop(strip(SubSeq(tmp, 1, IF cutoff # 0 THEN cutoff - 1 ELSE Len(tmp))))

\* the new Description: the generator's text, cut and given a full stop if
\* it is longer than 850 characters, or the fallback if the generator raised
RewriteDescription(ans, desc) ==
    LET new_desc == strip(IF ans.content = PyNone THEN <<>> ELSE ans.content)
    IN  IF ans.raised THEN DescriptionFallback(desc)
        ELSE IF Len(new_desc) > TargetLen THEN AddStop(CapLength(new_desc, TargetLen))
        ELSE new_desc

\* RewriteNotes without its `except Exception`
RewriteNotes_NoExcept(ans, pdesc) ==
    [raised |-> ans.raised,
     text |-> _sanitize_private_description(
                  strip(IF ans.content = PyNone THEN <<>> ELSE ans.content), TargetLen)]

\* the new Internal Notes: the generator's text, or the first 850 characters
\* of the old ones if the generator raised, sanitized to 850 characters
RewriteNotes(ans, pdesc) ==
    [raised |-> FALSE,
     text |-> _sanitize_private_description(
                  IF ans.raised THEN SubSeq(pdesc, 1, Min(Len(pdesc), TargetLen))
                  ELSE strip(IF ans.content = PyNone THEN <<>> ELSE ans.content),
                  TargetLen)]

(***************************************************************************)
(* Records whose values are texts (or PyNone) rather than literals         *)
(***************************************************************************)
\* `not v`
TextFalsy(v) == v \in {PyNone, <<>>}

\* `d.get(k)`
GetText(d, k) == IF HasKey(d, k) THEN GetItem(d, k) ELSE PyNone

\* `d.get(k, '')`
GetTextOr(d, k) == IF HasKey(d, k) THEN GetItem(d, k) ELSE <<>>

\* `a or b`
PyOr(a, b) == IF TextFalsy(a) THEN b ELSE a

\* _normalize_activity_keys
NormalizeTexts(items) ==
    LET acc == MapItems(items, <<>>)
    IN  IF ~HasKey(acc, "Quantity") \/ TextFalsy(GetItem(acc, "Quantity"))
        THEN SetItem(acc, "Quantity", <<"1">>)
        ELSE acc

\* validate_activity_data: no field is missing
ValidTexts(items) ==
    LET acc == NormalizeTexts(items)
    IN  \A k \in 1..Len(required_fields) :
            HasKey(acc, required_fields[k]) /\ ~TextFalsy(GetItem(acc, required_fields[k]))

\* self.data before __init__, and no call made yet
NoData == [kind |-> "unset", val |-> <<>>]
NoRet == [op |-> "none", raised |-> FALSE, section |-> <<>>, key |-> <<>>,
          value |-> JNull]

\* the cache and the enrichment harness are not in use
NoStore ==
    /\ cache_file = FileMissing
    /\ data = NoData
    /\ cache_ret = NoRet
    /\ written = <<>>
    /\ cache_ops = 0
    /\ recs = <<>>
    /\ rec_i = 0
    /\ gen_log = <<>>
    /\ limit_pc = "idle"
    /\ handed = <<>>

\* _choose_tech_areas has not been called
NoChoice == [done |-> FALSE, main |-> <<>>, additional |-> <<>>]

\* submit_activity's preparation of the record is not in use
NoPrep ==
    /\ heap = <<>>
    /\ reviewed = 0
    /\ given = <<>>
    /\ sent = <<>>

\* the option matcher harness is not in use
NoMatch ==
    /\ title = <<>>
    /\ description = <<>>
    /\ tech_options = [primary |-> <<>>, additional |-> <<>>]
    /\ choice = NoChoice
    /\ NoPrep

\* run_automation as main() starts it (process_mode='sequential'), at the
\* point where initialize, parse, enrichment and validation have left
\* num_valid valid activities
Init ==
    /\ AgentInit
    /\ NoRecord
    /\ NoMatch
    /\ NoStore
    /\ interactive \in BOOLEAN
    /\ num_valid \in 1..MaxActivities
    /\ act = 0
    /\ retry = 0
    /\ attempt = 0
    /\ pc = "next_activity"
    /\ error_msg = NoMsg
    /\ backoff = 0
    /\ submit_result = "none"
    /\ status = [i \in 1..num_valid |-> "pending"]
    /\ call = NewCall
    /\ first_fatal = FALSE
    /\ log = <<>>
    /\ process_mode = "sequential"
    /\ batch_size = 3
    /\ activities_json = [type |-> "str", text |-> Array([i \in 1..num_valid |-> "rec_full"])]
    /\ activities = [type |-> "list", elems |-> [i \in 1..num_valid |-> Element("rec_full")]]
    /\ private_desc = {}
    /\ valid_activities = [i \in 1..num_valid |-> i]
    /\ batches = [i \in 1..num_valid |-> <<i>>]
    /\ batch_num = 0
    /\ batch_j = 0
    /\ enrich_i = num_valid
    /\ mcp_tools = "connected"
    /\ outcome = "running"
    /\ answer = NoAnswer
    /\ started = <<>>
    /\ gen_calls = 0
    /\ cache_sets = 0
    /\ closes = [agent |-> 0, mcp |-> 0]

Next ==
    \/ NextActivity
    \/ SubmitCall
    \/ ArunReturns
    \/ ArunRaises
    \/ RateSleep
    \/ RateSnapshot
    \/ StaleSnapshot
    \/ OrchSuccess
    \/ OrchExcept
    \/ OrchSleep
    \/ AskContinue
    \/ Cleanup

Spec == Init /\ [][Next]_vars

\* the run under the proviso that every external call returns or fails and
\* every prompt is answered: a step that can be taken is taken
FairSpec == Spec /\ WF_vars(Next)

(***************************************************************************)
(* The backoff controller on its own: _compute_backoff called at any       *)
(* moments by any caller                                                   *)
(***************************************************************************)
\* seconds that may pass between two readings of the clock
WaitSeconds == {0, 20, WindowSecs + 1}

\* one call of _compute_backoff, `secs` seconds after the previous one
OverloadSignal ==
    /\ \E k \in 0..JitterSteps, secs \in WaitSeconds :
         /\ \/ _recent_429 < MaxSignals
            \/ WindowExpired(Advance(since_first_429, secs))
         /\ CallComputeBackoff(k, secs)
         /\ since_last_429' = 0
         /\ sig' = [count |-> _recent_429',
                    open |-> _circuit_open',
                    backoff |-> BackoffOf(rate_backoff_base(fast_mode), _recent_429'),
                    delay |-> backoff',
                    gap |-> Advance(since_last_429, secs),
                    age |-> Advance(since_first_429, secs),
                    prev_count |-> _recent_429,
                    prev_open |-> _circuit_open]
    /\ UNCHANGED <<fast_mode, interactive, num_valid, act, retry, attempt, pc,
                   error_msg, submit_result, status, call, first_fatal, log>>
    /\ UNCHANGED <<harnessvars, inputvars, stagevars, loopvars, connvars, endvars>>

\* run_automation is not running
NoRun ==
    /\ process_mode = "sequential"
    /\ batch_size = 3
    /\ activities_json = NotParsed
    /\ activities = NoActivities
    /\ private_desc = {}
    /\ valid_activities = <<>>
    /\ batches = <<>>
    /\ batch_num = 0
    /\ batch_j = 0
    /\ enrich_i = 0
    /\ mcp_tools = "None"
    /\ outcome = "running"
    /\ answer = NoAnswer
    /\ started = <<>>
    /\ gen_calls = 0
    /\ cache_sets = 0
    /\ closes = [agent |-> 0, mcp |-> 0]

BackoffInit ==
    /\ AgentInit
    /\ interactive = FALSE
    /\ num_valid = 0
    /\ act = 0
    /\ retry = 0
    /\ attempt = 0
    /\ pc = "idle"
    /\ error_msg = NoMsg
    /\ backoff = 0
    /\ submit_result = "none"
    /\ status = <<>>
    /\ call = NewCall
    /\ first_fatal = FALSE
    /\ log = <<>>
    /\ NoRecord
    /\ NoMatch
    /\ NoStore
    /\ NoRun

BackoffNext == OverloadSignal

BackoffSpec == BackoffInit /\ [][BackoffNext]_vars

(***************************************************************************)
(* The whole run: run_automation from its first statement, with each call  *)
(* of submit_activity taken as one step                                    *)
(***************************************************************************)
\* `process_mode` and `batch_size` as the caller may pass them
Modes ==
    {[mode |-> "sequential", size |-> 3], [mode |-> "turbo", size |-> 1]} \cup
    {[mode |-> "batched", size |-> n] : n \in 0..MaxActivities}

RunInit ==
    /\ AgentInit
    /\ NoRecord
    /\ NoMatch
    /\ NoStore
    /\ interactive \in BOOLEAN
    /\ \E m \in Modes :
         /\ process_mode = m.mode
         /\ batch_size = m.size
    /\ num_valid = 0
    /\ act = 0
    /\ retry = 0
    /\ attempt = 0
    /\ pc = "initialize"
    /\ error_msg = NoMsg
    /\ backoff = 0
    /\ submit_result = "none"
    /\ status = <<>>
    /\ call = NewCall
    /\ first_fatal = FALSE
    /\ log = <<>>
    /\ activities_json = NotParsed
    /\ activities = NoActivities
    /\ valid_activities = <<>>
    /\ batches = <<>>
    /\ batch_num = 0
    /\ batch_j = 0
    /\ enrich_i = 0
    /\ private_desc \in {{}, {<<"'a'", "'a'">>}}
    /\ mcp_tools = "None"
    /\ outcome = "running"
    /\ answer = NoAnswer
    /\ started = <<>>
    /\ gen_calls = 0
    /\ cache_sets = 0
    /\ closes = [agent |-> 0, mcp |-> 0]

RunNext ==
    \/ Initialize
    \/ ParseActivities
    \/ DecodeActivities
    \/ EnsurePrivateDescription
    \/ EnforceCharLimits
    \/ ValidateActivities
    \/ MakeBatches
    \/ NextActivity
    \/ SubmitActivity
    \/ OrchSuccess
    \/ OrchExcept
    \/ OrchSleep
    \/ AskContinue
    \/ Cleanup

RunSpec == RunInit /\ [][RunNext]_vars

(***************************************************************************)
(* _normalize_activity_keys and validate_activity_data on their own,       *)
(* applied to one parsed record                                            *)
(***************************************************************************)
\* the shapes of all fields
AllShapes == UNION {ShapesOf(FieldNames[i]) : i \in 1..Len(FieldNames)}

\* the records of the parser's fields in which at most MaxEdits fields are
\* not simply present under their canonical names
ParsedRecords ==
    {BuildRecord(sh, 1) :
        sh \in UNION {{f \in [E -> AllShapes] :
                          \A i \in E : f[i] \in ShapesOf(FieldNames[i])} :
                      E \in {X \in SUBSET (1..Len(FieldNames)) :
                                Cardinality(X) <= MaxEdits}}}

\* `self._normalize_activity_keys(a)`, on the raw record and then on its
\* own result, as run_automation and validate_activity_data do in turn
NormalizeCall ==
    /\ Len(normalized) < MaxPasses
    /\ normalized' = Append(normalized,
           _normalize_activity_keys(IF normalized = <<>> THEN activity
                                    ELSE normalized[Len(normalized)]))
    /\ UNCHANGED <<activity, validation>>
    /\ UNCHANGED <<corevars, matchvars, storevars, inputvars, stagevars, loopvars,
                   connvars, endvars>>

\* `is_valid, missing_fields = self.validate_activity_data(activity)`, on
\* the raw record or, as in run_automation, on the normalized one
ValidateCall ==
    /\ ~validation.done
    /\ Len(normalized) <= 1
    /\ LET d == IF normalized = <<>> THEN activity ELSE normalized[1]
           r == validate_activity_data(d)
       IN  validation' = [ok |-> r.ok, missing |-> r.missing, input |-> d,
                          done |-> TRUE]
    /\ UNCHANGED <<activity, normalized>>
    /\ UNCHANGED <<corevars, matchvars, storevars, inputvars, stagevars, loopvars,
                   connvars, endvars>>

RecordInit ==
    /\ fast_mode = FALSE
    /\ _recent_429 = 0
    /\ since_first_429 = NoTs
    /\ _circuit_open = FALSE
    /\ since_last_429 = NoTs
    /\ sig = NoSig
    /\ interactive = FALSE
    /\ num_valid = 0
    /\ act = 0
    /\ retry = 0
    /\ attempt = 0
    /\ pc = "idle"
    /\ error_msg = NoMsg
    /\ backoff = 0
    /\ submit_result = "none"
    /\ status = <<>>
    /\ call = NewCall
    /\ first_fatal = FALSE
    /\ log = <<>>
    /\ NoRun
    /\ activity \in ParsedRecords
    /\ normalized = <<>>
    /\ validation = NoValidation
    /\ NoMatch
    /\ NoStore

RecordNext ==
    \/ NormalizeCall
    \/ ValidateCall

RecordSpec == RecordInit /\ [][RecordNext]_vars

(***************************************************************************)
(* _CacheStore on its own: the constructor on any file, then get, set and  *)
(* save called by any caller                                               *)
(***************************************************************************)
\* a list of options as the cache file holds it
OneOption == JList(<<JStr(<<"x">>)>>)

\* what a decodable cache file may hold: the cache as the program saved it,
\* with or without cached texts, and content of other shapes
FileValues ==
    {JDict(<<>>),
     JDict(<< <<Name("private_desc"), JDict(<< <<Name("k1"), JStr(<<"a">>)>> >>)>> >>),
     JDict(<< <<Name("private_desc"), JDict(<< <<Name("k1"), JStr(<<"a">>)>> >>)>>,
              <<Name("rewrite850"), JDict(<<>>)>>,
              <<Name("dropdowns"),
                JDict(<< <<Name("tech_options"),
                           JDict(<< <<Name("primary"), OneOption>>,
                                    <<Name("additional"), JList(<<>>)>> >>)>>,
                         <<Name("target_audience"), OneOption>> >>)>> >>),
     JDict(<< <<Name("dropdowns"),
                JDict(<< <<Name("tech_options"),
                           JDict(<< <<Name("primary"), OneOption>> >>)>> >>)>> >>),
     JDict(<< <<Name("dropdowns"), JList(<<>>)>> >>),
     JDict(<< <<Name("dropdowns"), JStr(<<"tech_options">>)>> >>),
     JDict(<< <<Name("dropdowns"), JNull>> >>),
     JDict(<< <<Name("dropdowns"), JDict(<< <<Name("tech_options"), JList(<<>>)>> >>)>> >>),
     JDict(<< <<Name("dropdowns"),
                JDict(<< <<Name("tech_options"),
                           JStr(<<"primary", " ", "additional">>)>> >>)>> >>),
     JDict(<< <<Name("private_desc"), JList(<<>>)>> >>),
     JList(<<>>),
     JNull}

Files == {FileMissing, FileGarbage} \cup {FileHolds(v) : v \in FileValues}

\* the sections, keys and values of the calls
Sections == {Name("private_desc"), Name("dropdowns"), Name("extra")}
CacheKeys == {Name("k1"), Name("k2")}
CacheValues == {JStr(<<"a">>), JStr(<<"b">>)}

\* `self._cache = _CacheStore(...)`; `if changed: self.save()`
Construct ==
    /\ data = NoData
    /\ cache_ret.op = "none"
    /\ LET r == __init__(cache_file)
       IN  /\ cache_ret' = [NoRet EXCEPT !.op = "init", !.raised = r.raised]
           /\ data' = IF r.raised THEN NoData ELSE r.data
           /\ IF ~r.raised /\ r.changed
              THEN \E how \in Writes : cache_file' = save(cache_file, r.data, how).file
              ELSE cache_file' = cache_file
    /\ UNCHANGED <<written, cache_ops>>
    /\ UNCHANGED <<corevars, recvars, matchvars, enrichvars, limitvars, inputvars, stagevars,
                   loopvars, connvars, endvars>>

\* `self._cache.get(section, key)`
CacheGet ==
    /\ data # NoData
    /\ cache_ops < MaxCacheOps
    /\ \E section \in Sections, k \in CacheKeys :
         LET r == get(data, section, k)
         IN  cache_ret' = [op |-> "get", raised |-> r.raised, section |-> section,
                           key |-> k, value |-> r.value]
    /\ cache_ops' = cache_ops + 1
    /\ UNCHANGED <<cache_file, data, written>>
    /\ UNCHANGED <<corevars, recvars, matchvars, enrichvars, limitvars, inputvars, stagevars,
                   loopvars, connvars, endvars>>

\* `self._cache.set(section, key, value)`
CacheSet ==
    /\ data # NoData
    /\ cache_ops < MaxCacheOps
    /\ \E section \in Sections, k \in CacheKeys, v \in CacheValues :
         LET r == set(data, section, k, v)
         IN  /\ data' = r.data
             /\ cache_ret' = [op |-> "set", raised |-> r.raised, section |-> section,
                              key |-> k, value |-> v]
             /\ written' = IF r.raised THEN written
                           ELSE SetItem(written, <<section, k>>, v)
    /\ cache_ops' = cache_ops + 1
    /\ UNCHANGED cache_file
    /\ UNCHANGED <<corevars, recvars, matchvars, enrichvars, limitvars, inputvars, stagevars,
                   loopvars, connvars, endvars>>

\* `self._cache.save()`
CacheSave ==
    /\ data # NoData
    /\ cache_ops < MaxCacheOps
    /\ \E how \in Writes :
         LET r == save(cache_file, data, how)
         IN  /\ cache_file' = r.file
             /\ cache_ret' = [NoRet EXCEPT !.op = "save", !.raised = r.raised]
    /\ cache_ops' = cache_ops + 1
    /\ UNCHANGED <<data, written>>
    /\ UNCHANGED <<corevars, recvars, matchvars, enrichvars, limitvars, inputvars, stagevars,
                   loopvars, connvars, endvars>>

\* nothing but the cache is in use
Idle ==
    /\ fast_mode = FALSE
    /\ _recent_429 = 0
    /\ since_first_429 = NoTs
    /\ _circuit_open = FALSE
    /\ since_last_429 = NoTs
    /\ sig = NoSig
    /\ interactive = FALSE
    /\ num_valid = 0
    /\ act = 0
    /\ retry = 0
    /\ attempt = 0
    /\ pc = "idle"
    /\ error_msg = NoMsg
    /\ backoff = 0
    /\ submit_result = "none"
    /\ status = <<>>
    /\ call = NewCall
    /\ first_fatal = FALSE
    /\ log = <<>>
    /\ NoRun
    /\ NoRecord
    /\ title = <<>>
    /\ description = <<>>
    /\ tech_options = [primary |-> <<>>, additional |-> <<>>]
    /\ choice = NoChoice
    /\ NoPrep

CacheInit ==
    /\ Idle
    /\ cache_file \in Files
    /\ data = NoData
    /\ cache_ret = NoRet
    /\ written = <<>>
    /\ cache_ops = 0
    /\ recs = <<>>
    /\ rec_i = 0
    /\ gen_log = <<>>
    /\ limit_pc = "idle"
    /\ handed = <<>>

CacheNext ==
    \/ Construct
    \/ CacheGet
    \/ CacheSet
    \/ CacheSave

CacheSpec == CacheInit /\ [][CacheNext]_vars

(***************************************************************************)
(* _choose_tech_areas on its own: one call for a title, a description and  *)
(* an option set                                                           *)
(***************************************************************************)
\* the lists of at most MaxOptions options, repetitions included
OptionLists == UNION {[1..n -> Catalogue] : n \in 0..MaxOptions}

\* `primary_choice, additional_choices = self._choose_tech_areas(...)`
ChooseCall ==
    /\ ~choice.done
    /\ LET r == _choose_tech_areas(title, description, tech_options)
       IN  choice' = [done |-> TRUE, main |-> r.main, additional |-> r.additional]
    /\ UNCHANGED <<title, description, tech_options, prepvars>>
    /\ UNCHANGED <<corevars, recvars, storevars, inputvars, stagevars, loopvars,
                   connvars, endvars>>

MatchInit ==
    /\ fast_mode = FALSE
    /\ _recent_429 = 0
    /\ since_first_429 = NoTs
    /\ _circuit_open = FALSE
    /\ since_last_429 = NoTs
    /\ sig = NoSig
    /\ interactive = FALSE
    /\ num_valid = 0
    /\ act = 0
    /\ retry = 0
    /\ attempt = 0
    /\ pc = "idle"
    /\ error_msg = NoMsg
    /\ backoff = 0
    /\ submit_result = "none"
    /\ status = <<>>
    /\ call = NewCall
    /\ first_fatal = FALSE
    /\ log = <<>>
    /\ NoRun
    /\ NoRecord
    /\ title \in Titles
    /\ description \in Descriptions
    /\ tech_options \in [primary : OptionLists, additional : OptionLists]
    /\ choice = NoChoice
    /\ NoPrep
    /\ NoStore

MatchNext == ChooseCall

MatchSpec == MatchInit /\ [][MatchNext]_vars

(***************************************************************************)
(* EnrichSpec: ensure_private_descriptions over a list of records, with    *)
(* the cache of the orchestrator.  A record is its Title, its Description, *)
(* its 'Internal Notes' (PyNone when it has none) and whether it has a     *)
(* 'Private Description'.                                                  *)
(***************************************************************************)
EnrichTitles == {<<"a">>, <<"a", "|", "b">>, <<>>}
EnrichDescriptions == {<<"c">>, <<"b", "|", "c">>}

RecordShapes ==
    {[Title |-> t, Description |-> d, notes |-> n.notes, private |-> n.private] :
        t \in EnrichTitles, d \in EnrichDescriptions,
        n \in {[notes |-> PyNone, private |-> FALSE],
               [notes |-> <<"n", ".">>, private |-> FALSE],
               [notes |-> PyNone, private |-> TRUE]}}

RecordLists ==
    UNION {[1..n -> RecordShapes] : n \in 1..MaxRecords}

\* the cache file: none, or one that holds notes for ('a', 'c')
EnrichFiles ==
    {FileMissing,
     FileHolds(JDict(<< <<Name("private_desc"),
                          JDict(<< <<_hash(<< <<"a">>, <<"c">> >>),
                                     JStr(<<"x", ".">>)>> >>)>> >>))}

\* what `self._desc_agent.arun(prompt)` does: it raises, or its response has
\* no content, or a text
GeneratorAnswers ==
    {[raised |-> TRUE, content |-> PyNone],
     [raised |-> FALSE, content |-> PyNone],
     [raised |-> FALSE, content |-> <<"a", ".">>],
     [raised |-> FALSE, content |-> <<"a", ".", ".", ".", "hellip">>]}

\* the text of the `except Exception` branch
DefaultNotes ==
    <<"This is a concise internal summary for tracking this activity", ".">>

\* `text = (desc or '').replace(...).strip()`, the default text if empty
FallbackText(desc) ==
    LET t == strip(ReplaceDashes(IF desc = PyNone THEN <<>> ELSE desc))
    IN  IF t = <<>> THEN DefaultNotes ELSE t

\* `(getattr(resp, 'content', '') or '').strip()`, or the fallback
GeneratedText(ans, desc) ==
    IF ans.raised THEN FallbackText(desc)
    ELSE strip(IF ans.content = PyNone THEN <<>> ELSE ans.content)

\* `if cached`
CachedTruthy(v) == v.kind = "str" /\ v.val # <<>>

\* `not has_internal and not has_private` is false
HasNotes(r) == (r.notes # PyNone /\ r.notes # <<>>) \/ r.private

\* `key = self._hash(title, desc)`
KeyOf(r) == _hash(<<r.Title, r.Description>>)

\* the entry of gen_log for a turn of the loop
NoTurn == [turn |-> "none", raw |-> PyNone, write |-> "none"]

\* `if not has_internal and not has_private` is false: the record is kept
PassOver ==
    /\ data # NoData
    /\ ~cache_ret.raised
    /\ rec_i < Len(recs)
    /\ HasNotes(recs[rec_i + 1])
    /\ rec_i' = rec_i + 1
    /\ gen_log' = Append(gen_log, [NoTurn EXCEPT !.turn = "kept"])
    /\ UNCHANGED <<recs, cachevars>>
    /\ UNCHANGED <<corevars, recvars, matchvars, limitvars, inputvars, stagevars,
                   loopvars, connvars, endvars>>

\* `cached = self._cache.get('private_desc', key)`, `if cached`: the notes
\* are the sanitized cached text
UseCached ==
    /\ data # NoData
    /\ ~cache_ret.raised
    /\ rec_i < Len(recs)
    /\ ~HasNotes(recs[rec_i + 1])
    /\ LET cached == get(data, Name("private_desc"), KeyOf(recs[rec_i + 1]))
       IN  /\ ~cached.raised
           /\ CachedTruthy(cached.value)
           /\ recs' = [recs EXCEPT ![rec_i + 1].notes =
                          _sanitize_private_description(cached.value.val, DefaultMaxLen)]
           /\ gen_log' = Append(gen_log, [NoTurn EXCEPT !.turn = "cached",
                                                        !.raw = cached.value.val])
    /\ rec_i' = rec_i + 1
    /\ UNCHANGED cachevars
    /\ UNCHANGED <<corevars, recvars, matchvars, limitvars, inputvars, stagevars,
                   loopvars, connvars, endvars>>

\* nothing cached: the generator (or the fallback) gives the text, which is
\* sanitized, put into the record, set in the cache and saved; the `except
\* Exception: pass` around save lets the loop go on
Generate ==
    /\ data # NoData
    /\ ~cache_ret.raised
    /\ rec_i < Len(recs)
    /\ ~HasNotes(recs[rec_i + 1])
    /\ LET rec == recs[rec_i + 1]
           cached == get(data, Name("private_desc"), KeyOf(rec))
       IN  /\ ~cached.raised
           /\ ~CachedTruthy(cached.value)
           /\ \E ans \in GeneratorAnswers, how \in Writes :
                LET raw == GeneratedText(ans, rec.Description)
                    text == _sanitize_private_description(raw, DefaultMaxLen)
                    r == set(data, Name("private_desc"), KeyOf(rec), JStr(text))
                    s == save(cache_file, r.data, how)
                IN  /\ recs' = [recs EXCEPT ![rec_i + 1].notes = text]
                    /\ data' = r.data
                    /\ cache_file' = s.file
                    /\ cache_ret' = [NoRet EXCEPT !.op = "save", !.raised = s.raised]
                    /\ gen_log' = Append(gen_log, [turn |-> "generated", raw |-> raw,
                                                   write |-> how])
    /\ rec_i' = rec_i + 1
    /\ UNCHANGED <<written, cache_ops>>
    /\ UNCHANGED <<corevars, recvars, matchvars, limitvars, inputvars, stagevars,
                   loopvars, connvars, endvars>>

EnrichInit ==
    /\ Idle
    /\ cache_file \in EnrichFiles
    /\ data = NoData
    /\ cache_ret = NoRet
    /\ written = <<>>
    /\ cache_ops = 0
    /\ recs \in RecordLists
    /\ rec_i = 0
    /\ gen_log = <<>>
    /\ limit_pc = "idle"
    /\ handed = <<>>

EnrichNext ==
    \/ Construct
    \/ PassOver
    \/ UseCached
    \/ Generate

EnrichSpec == EnrichInit /\ [][EnrichNext]_vars

(***************************************************************************)
(* LimitSpec: the stages of run_automation between parsing and dispatch    *)
(* (ensure_private_descriptions, enforce_char_limits, normalization and    *)
(* validation) over records whose Description and notes may be long.  The  *)
(* cache starts from no file.                                              *)
(***************************************************************************)
\* n times the character c
Rep(c, n) == [i \in 1..n |-> c] \o <<>>

\* Descriptions: none, short, of exactly 1000 characters, and longer ones
\* without full stop or blank, with a full stop, with a blank
LimitDescriptions ==
    {PyNone,
     <<"c", ".">>,
     Rep("a", 1000),
     Rep("a", 1200),
     Rep("a", 600) \o <<".">> \o Rep("b", 599),
     Rep("a", 500) \o <<" ">> \o Rep("b", 700)}

\* the items a record has under 'Internal Notes' and 'Private Description'
LimitNotes ==
    LET short == <<"n", ".">>
        long == Rep("n", 700) \o <<".", " ">> \o Rep("m", 500)
    IN  {<<>>,
         << <<"Internal Notes", short>> >>,
         << <<"Internal Notes", long>> >>,
         << <<"Private Description", short>> >>,
         << <<"Private Description", long>> >>,
         << <<"Internal Notes", <<>> >>, <<"Private Description", long>> >>,
         << <<"Private Description", long>>, <<"Internal Notes", <<>> >> >>,
         << <<"Internal Notes", short>>, <<"Private Description", long>> >>}

\* a parsed record: every other required field is there
LimitRecord(desc, notes) ==
    << <<"Category", <<"x">> >>, <<"Main Technology", <<"x">> >>,
       <<"Title", <<"t">> >>, <<"Description", desc>> >>
    \o notes \o
    << <<"URL", <<"x">> >>, <<"Date", <<"x">> >>, <<"Quantity", <<"2">> >>,
       <<"Audience", <<"x">> >> >>

\* the parsed records: up to MaxCopies records of the same content
LimitLists ==
    {[i \in 1..n |-> LimitRecord(desc, notes)] :
        n \in 1..MaxCopies, desc \in LimitDescriptions, notes \in LimitNotes}

\* what `self._desc_agent.arun(prompt)` does when asked to rewrite: it
\* raises, or its response has no content, or a text (short; 850 or 900
\* characters without full stop or blank; a long one with a full stop)
RewriteAnswers ==
    {[raised |-> TRUE, content |-> PyNone],
     [raised |-> FALSE, content |-> PyNone],
     [raised |-> FALSE, content |-> <<"d", ".">>],
     [raised |-> FALSE, content |-> Rep("a", 850)],
     [raised |-> FALSE, content |-> Rep("a", 900)],
     [raised |-> FALSE, content |-> Rep("a", 400) \o <<".">> \o Rep("b", 500)]}

\* an entry of gen_log: the stage, the record, and where the text came from
Turn(stage, i, source) == [stage |-> stage, i |-> i, source |-> source]
SourceOf(ans) == IF ans.raised THEN "fallback" ELSE "generator"

\* ensure_private_descriptions: one turn of `for act in activities`
LimitEnsure ==
    /\ limit_pc = "ensure"
    /\ data # NoData
    /\ rec_i < Len(recs)
    /\ LET rec == recs[rec_i + 1]
           k == _hash(<<GetTextOr(rec, "Title"), GetTextOr(rec, "Description")>>)
           cached == get(data, Name("private_desc"), k)
       IN  IF \/ ~TextFalsy(GetText(rec, "Internal Notes"))
              \/ ~TextFalsy(GetText(rec, "Private Description"))
           THEN /\ gen_log' = Append(gen_log, Turn("notes", rec_i + 1, "kept"))
                /\ UNCHANGED <<recs, cachevars>>
           ELSE IF CachedTruthy(cached.value)
           THEN /\ recs' = [recs EXCEPT ![rec_i + 1] =
                               SetItem(rec, "Internal Notes",
                                   _sanitize_private_description(cached.value.val,
                                                                 DefaultMaxLen))]
                /\ gen_log' = Append(gen_log, Turn("notes", rec_i + 1, "cache"))
                /\ UNCHANGED cachevars
           ELSE \E ans \in GeneratorAnswers :
                  LET notes == _sanitize_private_description(
                                   GeneratedText(ans, GetTextOr(rec, "Description")),
                                   DefaultMaxLen)
                      r == set(data, Name("private_desc"), k, JStr(notes))
                  IN  \E how \in Writes :
                      LET s == save(cache_file, r.data, how)
                      IN
                      /\ recs' = [recs EXCEPT ![rec_i + 1] =
                                     SetItem(rec, "Internal Notes", notes)]
                      /\ data' = r.data
                      /\ cache_file' = s.file
                      /\ cache_ret' = [NoRet EXCEPT !.op = "save", !.raised = s.raised]
                      /\ gen_log' = Append(gen_log,
                                           Turn("notes", rec_i + 1, SourceOf(ans)))
                      /\ UNCHANGED <<written, cache_ops>>
    /\ rec_i' = IF rec_i + 1 = Len(recs) THEN 0 ELSE rec_i + 1
    /\ limit_pc' = IF rec_i + 1 = Len(recs) THEN "description" ELSE "ensure"
    /\ UNCHANGED handed
    /\ UNCHANGED <<corevars, recvars, matchvars, inputvars, stagevars, loopvars,
                   connvars, endvars>>

\* enforce_char_limits: the Description of the record the loop is at
LimitDescription ==
    /\ limit_pc = "description"
    /\ LET rec == recs[rec_i + 1]
           desc == GetText(rec, "Description")
           k == _hash(<<Desc850, desc>>)
           cached == get(data, Name("rewrite850"), k)
       IN  IF ~OverLong(desc)
           THEN UNCHANGED <<recs, gen_log, cachevars>>
           ELSE IF CachedTruthy(cached.value)
           THEN /\ recs' = [recs EXCEPT ![rec_i + 1] =
                               SetItem(rec, "Description", cached.value.val)]
                /\ gen_log' = Append(gen_log, Turn("desc850", rec_i + 1, "cache"))
                /\ UNCHANGED cachevars
           ELSE \E ans \in RewriteAnswers :
                  LET new_desc == RewriteDescription(ans, desc)
                      r == set(data, Name("rewrite850"), k, JStr(new_desc))
                  IN  \E how \in Writes :
                      LET s == save(cache_file, r.data, how)
                      IN
                      /\ recs' = [recs EXCEPT ![rec_i + 1] =
                                     SetItem(rec, "Description", new_desc)]
                      /\ data' = r.data
                      /\ cache_file' = s.file
                      /\ cache_ret' = [NoRet EXCEPT !.op = "save", !.raised = s.raised]
                      /\ gen_log' = Append(gen_log,
                                           Turn("desc850", rec_i + 1, SourceOf(ans)))
                      /\ UNCHANGED <<written, cache_ops>>
    /\ limit_pc' = "notes"
    /\ UNCHANGED <<rec_i, handed>>
    /\ UNCHANGED <<corevars, recvars, matchvars, inputvars, stagevars, loopvars,
                   connvars, endvars>>

\* enforce_char_limits: the notes of the record the loop is at, `Internal
\* Notes` or else `Private Description`; an exception ends the stages
LimitInternalNotes ==
    /\ limit_pc = "notes"
    /\ LET rec == recs[rec_i + 1]
           pdesc == PyOr(GetText(rec, "Internal Notes"),
                         GetText(rec, "Private Description"))
           k == _hash(<<Pdesc850, pdesc>>)
           cached == get(data, Name("rewrite850"), k)
           onward == IF rec_i + 1 = Len(recs) THEN "validate" ELSE "description"
       IN  IF ~OverLong(pdesc)
           THEN /\ limit_pc' = onward
                /\ UNCHANGED <<recs, gen_log, cachevars>>
           ELSE IF CachedTruthy(cached.value)
           THEN /\ recs' = [recs EXCEPT ![rec_i + 1] =
                               SetItem(rec, "Internal Notes",
                                   _sanitize_private_description(cached.value.val,
                                                                 TargetLen))]
                /\ gen_log' = Append(gen_log, Turn("pdesc850", rec_i + 1, "cache"))
                /\ limit_pc' = onward
                /\ UNCHANGED cachevars
           ELSE \E ans \in RewriteAnswers :
                  LET new_pdesc == RewriteNotes(ans, pdesc)
                      r == set(data, Name("rewrite850"), k, JStr(new_pdesc.text))
                  IN  \E how \in Writes :
                      LET s == save(cache_file, r.data, how)
                      IN
                      IF new_pdesc.raised
                      THEN /\ limit_pc' = "raised"
                           /\ UNCHANGED <<recs, gen_log, cachevars>>
                      ELSE /\ recs' = [recs EXCEPT ![rec_i + 1] =
                                          SetItem(rec, "Internal Notes", new_pdesc.text)]
                           /\ data' = r.data
                           /\ cache_file' = s.file
                           /\ cache_ret' = [NoRet EXCEPT !.op = "save",
                                                         !.raised = s.raised]
                           /\ gen_log' = Append(gen_log,
                                             Turn("pdesc850", rec_i + 1, SourceOf(ans)))
                           /\ limit_pc' = onward
                           /\ UNCHANGED <<written, cache_ops>>
    /\ rec_i' = rec_i + 1
    /\ UNCHANGED handed
    /\ UNCHANGED <<corevars, recvars, matchvars, inputvars, stagevars, loopvars,
                   connvars, endvars>>

\* `normalized_activities`, and of them `valid_activities`
LimitValidate ==
    /\ limit_pc = "validate"
    /\ handed' = SelectSeq([i \in 1..Len(recs) |-> NormalizeTexts(recs[i])],
                           LAMBDA n : ValidTexts(n))
    /\ limit_pc' = "handed"
    /\ UNCHANGED <<cachevars, enrichvars>>
    /\ UNCHANGED <<corevars, recvars, matchvars, inputvars, stagevars, loopvars,
                   connvars, endvars>>

LimitInit ==
    /\ Idle
    /\ cache_file = FileMissing
    /\ data = NoData
    /\ cache_ret = NoRet
    /\ written = <<>>
    /\ cache_ops = 0
    /\ recs \in LimitLists
    /\ rec_i = 0
    /\ gen_log = <<>>
    /\ limit_pc = "ensure"
    /\ handed = <<>>

LimitNext ==
    \/ Construct
    \/ LimitEnsure
    \/ LimitDescription
    \/ LimitInternalNotes
    \/ LimitValidate

LimitSpec == LimitInit /\ [][LimitNext]_vars

(***************************************************************************)
(* submit_activity: the preparation of the record before the attempt loop. *)
(* A dict is an object of the heap; a name holds its place.  The values of *)
(* its items are JStr texts and JList lists.                               *)
(***************************************************************************)
\* DictCopy that hands back the object it was given
DictCopy_Alias(h, ref) == [heap |-> h, ref |-> ref]

\* `dict(d)`: a new object with the items of the object at ref
DictCopy(h, ref) == [heap |-> Append(h, h[ref]), ref |-> Len(h) + 1]

\* `not v`, for a JSON value
JFalsy(v) == v.kind = "null" \/ v.val = <<>>

\* `d.get(k, '')` of a text item
TextAt(d, k) == IF HasKey(d, k) THEN GetItem(d, k).val ELSE <<>>

\* _generate_private_description
_generate_private_description(desc) ==
    LET text == strip(StripUrls(strip(ReplaceDashes(desc)), FALSE))
    IN  IF text = <<>> THEN DefaultNotes
        ELSE EndSentence(CapLength(text, DefaultMaxLen))

\* `_match_choice(choice, pool)`: the first option equal to the choice but
\* for letter case, or else the first that contains it, or else ''
_match_choice(c, pool) ==
    LET exact == {i \in 1..Len(pool) : pool[i] # <<>> /\ lower(pool[i]) = lower(c)}
        within == {i \in 1..Len(pool) :
                      pool[i] # <<>> /\ Contains(lower(c), lower(pool[i]))}
        First(S) == pool[CHOOSE i \in S : \A k \in S : i <= k]
    IN  IF c = <<>> THEN <<>>
        ELSE IF exact # {} THEN First(exact)
        ELSE IF within # {} THEN First(within)
        ELSE <<>>

\* `for a in (additional_choices or [])`: "map to form strings when possible"
RECURSIVE CleanChoices(_, _, _)
CleanChoices(choices, pool, cleaned) ==
    IF choices = <<>> THEN cleaned
    ELSE LET a == Head(choices)
             matched == _match_choice(a, pool)
         IN  CleanChoices(Tail(choices), pool,
                 IF a = <<>> THEN cleaned
                 ELSE IF matched # <<>> /\ ~InList(matched, cleaned)
                 THEN Append(cleaned, matched)
                 ELSE IF ~InList(a, cleaned) /\ InList(a, pool)
                 THEN Append(cleaned, a)
                 ELSE cleaned)

\* the fallback audience options
DefaultAudiences ==
    <<JStr(<<"Developer">>), JStr(<<"IT Pro">>), JStr(<<"Business Decision Maker">>),
      JStr(<<"Technical Decision Maker">>), JStr(<<"Student">>)>>

\* "validate choices against the portal options": the items d with the
\* technology fields of the choice c matched against the options opts
AssignTechnologies(d, c, opts) ==
    LET pool == opts.primary \o opts.additional
        matched == _match_choice(c.main, pool)
        validated_primary == IF matched = <<>> /\ pool # <<>> THEN pool[1] ELSE matched
        cleaned_additional ==
            PadToTwo(CleanChoices(c.additional, opts.additional \o opts.primary, <<>>))
    IN  SetItem(SetItem(d, "Main Technology", JStr(validated_primary)),
                "Additional Technologies",
                JList([i \in 1..Len(cleaned_additional) |->
                          JStr(cleaned_additional[i])]))

\* `if not activity_data.get('Internal Notes'):` the notes made of the
\* description
DefaultInternalNotes(d) ==
    IF ~HasKey(d, "Internal Notes") \/ JFalsy(GetItem(d, "Internal Notes"))
    THEN SetItem(d, "Internal Notes",
                 JStr(_generate_private_description(TextAt(d, "Description"))))
    ELSE d

\* the statements between the copy and the check of the required fields,
\* on the items d of the working copy: Audience, the technology fields
\* chosen among the options opts, Internal Notes if there are none
PrepareData(d, opts, audiences) ==
    DefaultInternalNotes(
        AssignTechnologies(SetItem(d, "Audience", JList(audiences)),
                           _choose_tech_areas(TextAt(d, "Title"),
                                              TextAt(d, "Description"), opts),
                           opts))

\* `missing_fields`, the required fields d lacks
MissingFields(d) ==
    SelectSeq(required_fields, LAMBDA f : ~HasKey(d, f) \/ JFalsy(GetItem(d, f)))

(***************************************************************************)
(* PrepSpec: interactive_review and the preparation in submit_activity, on *)
(* one record and an option set whose entries may differ only in letter    *)
(* case or contain one another.  initialize has set the options, so they   *)
(* are a dict with both lists.                                             *)
(***************************************************************************)
CaseOptionLists == UNION {[1..n -> CaseOptions] : n \in 0..MaxOptions}

\* the record of the dispatch loop: a valid one, with or without technology
\* fields of its own, or (submit_activity called directly) without notes
PrepRecords(t, d) ==
    LET head == << <<"Category", JStr(<<"c">>)>>, <<"Main Technology", JStr(<<"m">>)>>,
                   <<"Title", JStr(t)>>, <<"Description", JStr(d)>> >>
        rest == << <<"URL", JStr(<<"u">>)>>, <<"Date", JStr(<<"d">>)>>,
                   <<"Quantity", JStr(<<"1">>)>>, <<"Audience", JStr(<<"x">>)>> >>
        notes == << <<"Internal Notes", JStr(<<"n", ".">>)>> >>
    IN  {head \o notes \o rest,
         head \o notes \o rest
              \o << <<"Additional Technologies", JList(<<JStr(<<"o">>)>>)>> >>,
         head \o rest}

\* `reviewed = interactive_review(activity)`, which returns `dict(activity)`
InteractiveReview ==
    /\ heap # <<>>
    /\ reviewed = 0
    /\ LET c == DictCopy(heap, 1)
       IN  /\ heap' = c.heap
           /\ reviewed' = c.ref
    /\ UNCHANGED <<title, description, tech_options, choice, given, sent>>
    /\ UNCHANGED <<corevars, recvars, storevars, inputvars, stagevars, loopvars,
                   connvars, endvars>>

\* `target_audiences`: the fallback list, or `_target_audience_options`
TargetAudiences == {DefaultAudiences, <<JStr(<<"x">>)>>}

\* one call `submit_activity(reviewed, ...)` up to the attempt loop: the
\* working copy is prepared and goes into the prompt, or ValueError is
\* raised for its missing fields; `_target_audience_options` is the same in
\* every call
SubmitPrepare ==
    /\ reviewed # 0
    /\ Len(given) < max_activity_retries
    /\ \E audiences \in {a \in TargetAudiences :
                             sent # <<>> =>
                                 a = GetItem(sent[1].activity_data, "Audience").val} :
         \E c \in {DictCopy(heap, reviewed)} :
         \E d \in {PrepareData(c.heap[c.ref], tech_options, audiences)} :
             /\ heap' = [c.heap EXCEPT ![c.ref] = d]
             /\ given' = Append(given, heap[reviewed])
             /\ sent' = Append(sent, [raised |-> MissingFields(d) # <<>>,
                                      activity_data |-> d])
    /\ UNCHANGED <<title, description, tech_options, choice, reviewed>>
    /\ UNCHANGED <<corevars, recvars, storevars, inputvars, stagevars, loopvars,
                   connvars, endvars>>

PrepInit ==
    /\ fast_mode = FALSE
    /\ _recent_429 = 0
    /\ since_first_429 = NoTs
    /\ _circuit_open = FALSE
    /\ since_last_429 = NoTs
    /\ sig = NoSig
    /\ interactive = FALSE
    /\ num_valid = 0
    /\ act = 0
    /\ retry = 0
    /\ attempt = 0
    /\ pc = "idle"
    /\ error_msg = NoMsg
    /\ backoff = 0
    /\ submit_result = "none"
    /\ status = <<>>
    /\ call = NewCall
    /\ first_fatal = FALSE
    /\ log = <<>>
    /\ NoRun
    /\ NoRecord
    /\ title \in Titles
    /\ description \in Descriptions
    /\ tech_options \in [primary : CaseOptionLists, additional : CaseOptionLists]
    /\ choice = NoChoice
    /\ heap \in {<<r>> : r \in PrepRecords(title, description)}
    /\ reviewed = 0
    /\ given = <<>>
    /\ sent = <<>>
    /\ NoStore

PrepNext ==
    \/ InteractiveReview
    \/ SubmitPrepare

PrepSpec == PrepInit /\ [][PrepNext]_vars

TypeOK ==
    /\ pc \in {"idle", "initialize", "parse", "decode", "enrich", "validate",
               "make_batches", "next_activity", "submit", "arun", "rate_sleep",
               "rate_snapshot", "stale_snapshot", "submitted", "orch_except",
               "orch_sleep", "ask_continue", "cleanup", "closed"}
    /\ outcome \in {"running", "parse_failed", "no_valid", "declined", "critical",
                    "completed"}
    /\ mcp_tools \in {"None", "created", "connected"}
    /\ attempt \in 0..max_attempts
    /\ retry \in 0..(max_activity_retries - 1)
    /\ act \in 0..Len(activities.elems)
    /\ _recent_429 \in Nat
    /\ since_first_429 \in {NoTs} \cup 0..(WindowSecs + 1)
    /\ _circuit_open \in BOOLEAN

(***************************************************************************)
(* Properties of submit_activity and of the retry loop around it            *)
(* (specification Spec)                                                    *)
(***************************************************************************)
\* the tests of the except-handler, tabulated for the executor's texts
RateSignal == [msg \in ExecutorErrors |-> IsRateLimit(msg)]
StaleSignal == [msg \in ExecutorErrors |-> IsSnapshotError(msg)]

\* the activity's latest arun failure was handled in the given branch
LastFailure(category) ==
    /\ log # <<>>
    /\ HandledAsOf[log[1].msg] = category

\* C1: when all 3 attempts of one submit call fail with retryable errors,
\* the call ends by raising the retries-exhausted failure; it never returns
\* normally.
C1_ExhaustionRaises ==
    (/\ submit_result # "running"
     /\ call.invokes = 3
     /\ call.retryable
     /\ ~call.succeeded) => submit_result = "raised_exhausted"

\* C2: when the first executor invocation for a record fails with a Fatal
\* error, the executor is not invoked again for that record: no later submit
\* call of the record reaches an invocation.
C2_FatalNotRetried ==
    first_fatal => (retry = 0 \/ pc = "submit" \/ call.invokes = 0)

\* C3: one submit call invokes the executor at most 3 times, and a response
\* ends the call at once with that response: no invocation, sleep or
\* snapshot of the call happens after it.
C3_ReturnsOnSuccess ==
    /\ call.invokes <= 3
    /\ call.after_success = 0
    /\ call.succeeded =>
         /\ submit_result = "content"
         /\ pc \in {"submitted", "next_activity", "submit", "cleanup", "closed"}

C3_Witness ==
    /\ call.succeeded
    /\ call.invokes = 3
    /\ pc = "submitted"

\* C4: after an Overload failure the handler requests one delay from
\* _compute_backoff, then sleeps exactly that delay, then takes one snapshot
\* whose failure is ignored, in this order and nothing else, before the next
\* invocation; the failed attempt is counted, so the next invocation is
\* attempt + 1 and there is none after the third attempt.
C4_OverloadSequence ==
    LastFailure("Overload") =>
        /\ Len(log) \in 2..4
        /\ log[2].ev = "backoff" /\ log[2].d > 0
        /\ Len(log) >= 3 => log[3] = [ev |-> "sleep", d |-> log[2].d]
        /\ Len(log) >= 4 => log[4].ev = "resync"
        /\ pc = "arun" =>
             /\ Len(log) = 4
             /\ attempt = log[1].attempt + 1
             /\ attempt < 3
        /\ (Len(log) = 4 /\ log[1].attempt = 2) =>
             /\ pc \in {"submitted", "next_activity"}
             /\ call.invokes = 3

C4_Witness ==
    /\ LastFailure("Overload")
    /\ pc = "arun"
    /\ attempt = 2
    /\ Len(log) = 4
    /\ log[4] = [ev |-> "resync", ok |-> FALSE]
    /\ log[3].d > rate_backoff_base(fast_mode)

\* C5: after a StaleReference failure nothing is slept and _compute_backoff
\* is not called before the executor is next invoked for the same record.
C5_StaleNoSleep ==
    (LastFailure("StaleReference") /\ pc = "arun") =>
        \A i \in 1..Len(log) : log[i].ev \notin {"backoff", "sleep", "orch_sleep"}

\* C6: every executor error is handled in exactly one of the three branches:
\* the rate-limit branch whenever the text carries the overload signal (also
\* when it carries the stale-reference signal too), the snapshot branch when
\* it carries only the stale-reference signal, and re-raised unchanged
\* otherwise.
C6_ClassificationTotal ==
    log # <<>> =>
        LET msg == log[1].msg
            overload == Len(log) >= 2 /\ log[2].ev = "backoff"
            stale == \/ Len(log) = 1 /\ pc = "stale_snapshot"
                     \/ Len(log) >= 2 /\ log[2].ev = "resync"
                     \/ Len(log) >= 2 /\ log[2].ev = "raise" /\ log[2].exhausted
            fatal == Len(log) >= 2 /\ log[2].ev = "raise" /\ ~log[2].exhausted
        IN  /\ overload <=> RateSignal[msg]
            /\ stale <=> (~RateSignal[msg] /\ StaleSignal[msg])
            /\ fatal <=> (~RateSignal[msg] /\ ~StaleSignal[msg])

C6_Witness ==
    /\ log # <<>>
    /\ log[1].msg = MsgBoth
    /\ pc = "rate_sleep"

\* the category run_automation's handler treats the text as
OrchCategory(msg) ==
    CASE OrchBranchOf[msg] = "rate" -> "Overload"
      [] OrchBranchOf[msg] = "snapshot" -> "StaleReference"
      [] OTHER -> "Fatal"

\* C35: the handler of run_automation and the handler of submit_activity put
\* every error text of the executor in the same category (overload, stale
\* reference, other); a text with both the rate-limit and the
\* stale-reference signal is an overload in both.
C35_SameClassification ==
    error_msg \in ExecutorErrors => OrchCategory(error_msg) = HandledAsOf[error_msg]

\* the step is an invocation of the executor that fails
InvocationFails == pc = "arun" /\ pc' # "submitted"

\* the step records one overload signal: the controller's state after it is
\* that of one call of _compute_backoff
OneSignal ==
    \E secs \in ArunSeconds, k \in 0..JitterSteps :
        LET r == ComputeBackoff(_recent_429, Advance(since_first_429, secs),
                                _circuit_open, rate_backoff_base(fast_mode), k)
        IN  /\ _recent_429' = r.recent
            /\ since_first_429' = r.age
            /\ _circuit_open' = r.open

\* the step leaves the failure count, the window start and the circuit flag
\* as they are (the age of the window start may grow)
ControllerKept ==
    /\ _recent_429' = _recent_429
    /\ _circuit_open' = _circuit_open
    /\ \E secs \in ArunSeconds \cup {0} :
           since_first_429' = Advance(since_first_429, secs)

\* C36: the state of the backoff controller (failure count, window start,
\* circuit flag) changes only when an invocation of the executor fails with
\* an error handled as Overload, and then by exactly one overload signal;
\* responses, StaleReference and Fatal failures, the retries of
\* run_automation and the move to the next record leave it unchanged.
C36_BackoffFrame ==
    [][IF InvocationFails /\ HandledAsOf[log'[1].msg] = "Overload"
       THEN OneSignal
       ELSE ControllerKept]_vars

\* a stale reference in the second submit call of a record, after two
\* overload signals
C36_Witness ==
    /\ pc = "stale_snapshot"
    /\ retry = 1
    /\ _recent_429 = 2

\* C37: a record is reported as successfully processed only if some
\* invocation of the executor for it returned without error; a record whose
\* every invocation failed is reported as failed.
C37_SuccessMeansResponse ==
    /\ pc = "submitted" => call.succeeded
    /\ (pc = "next_activity" /\ act >= 1) =>
           (status[act] = "success" <=> call.succeeded)

\* C39: no backoff sleep is wasted: a submit call sleeps or resyncs only when
\* another attempt is left in the same call, so after the failure of the
\* final attempt it does neither.
C39_NoWastedSleep ==
    pc \in {"rate_sleep", "rate_snapshot", "stale_snapshot"} =>
        attempt + 1 < max_attempts

\* C38: every run terminates whatever the executor does: a record undergoes
\* at most 3 submit calls of at most 3 invocations each, and when every
\* external call returns or fails and every prompt is answered the run ends
\* completed or declined and its cleanup has run.
C38_RunTerminates ==
    /\ [](call.invokes <= 3 /\ retry < 3)
    /\ <>(pc = "closed" /\ outcome \in {"completed", "declined"})

\* a run that has ended after the third submit call of a record failed at its
\* third invocation
C38_Witness ==
    /\ pc = "closed"
    /\ retry = max_activity_retries - 1
    /\ call.invokes = max_attempts
    /\ ~call.succeeded

(***************************************************************************)
(* Properties of _compute_backoff (specification BackoffSpec)              *)
(***************************************************************************)
\* C7: whenever the in-window count after a signal is at least 5, the
\* circuit is open and the returned delay is at least 10 s, for both bases;
\* so it is for the 6th of six signals that arrive together.
C7_CircuitFloor ==
    (sig.count >= 1 /\ _recent_429 >= 5) =>
        /\ _circuit_open
        /\ sig.delay >= 10000

C7_Witness ==
    /\ fast_mode
    /\ _recent_429 = 6
    /\ sig.age = 0
    /\ _circuit_open
    /\ sig.delay = 10000

\* C8: within one window the returned delay, jitter included, never
\* decreases from one count to the next.
C8_DelayMonotone ==
    [][(sig.count >= 1 /\ sig'.count = sig.count + 1)
         => sig'.delay >= sig.delay]_vars

\* C8, amended: within one window the delay before jitter never decreases
\* from one count to the next, and the returned delay at the next count is
\* at least the delay before jitter at this count (so it is less than the
\* returned delay at this count by at most the jitter, 1 s).
C8_PreJitterMonotone ==
    [][(sig.count >= 1 /\ sig'.count = sig.count + 1)
         => /\ sig'.backoff >= sig.backoff
            /\ sig'.delay >= sig.backoff
            /\ sig'.delay >= sig.delay - 1000]_vars

C8_Witness ==
    /\ sig.count = 8
    /\ sig.prev_count = 7
    /\ sig.backoff = 64 * rate_backoff_base(fast_mode)
    /\ sig.delay = sig.backoff

\* C9: a signal that comes more than 60 s after the latest one is the first
\* of a fresh window whatever the state before: count 1, circuit closed,
\* delay before jitter equal to the base.
C9_IdleReset ==
    (sig.count >= 1 /\ sig.gap > 60) =>
        /\ _recent_429 = 1
        /\ ~_circuit_open
        /\ sig.backoff = rate_backoff_base(fast_mode)

C9_Witness ==
    /\ sig.count = 1
    /\ sig.gap > 60
    /\ sig.prev_count >= 5
    /\ sig.prev_open
    /\ ~_circuit_open

C11_DelayBounds ==
    sig.count >= 1 =>
        LET base == IF fast_mode THEN 250 ELSE 500
            D == base * 2^(IF sig.count - 1 < 6 THEN sig.count - 1 ELSE 6)
            tenth == D \div 10
        IN  /\ sig.count < 5 =>
                  /\ D <= sig.delay
                  /\ sig.delay <= D + (IF tenth < 1000 THEN tenth ELSE 1000)
            /\ sig.delay <= 64 * base + 1000
            /\ sig.delay > 0

C11_Witness ==
    /\ sig.count = 8
    /\ sig.delay = 64 * rate_backoff_base(fast_mode) + 1000
    /\ sig.prev_count = 7

(***************************************************************************)
(* Properties of _normalize_activity_keys and validate_activity_data       *)
(* (specification RecordSpec)                                              *)
(***************************************************************************)
Elements(seq) == {seq[i] : i \in 1..Len(seq)}

NineRequired ==
    {"Category", "Main Technology", "Title", "Description", "Internal Notes",
     "URL", "Date", "Quantity", "Audience"}

LegacySynonyms ==
    {"Activity Type", "Primary Technology Area", "Additional Technology Areas",
     "Private Description", "Number of Views", "Activity URL",
     "Target Audience", "Published Date"}

\* C18: validate returns ok = true exactly when each of the nine required
\* fields is present and non-empty (not None, not the empty string, not an
\* empty list) after normalization; missing lists exactly the required
\* fields that are absent or empty; Views and Additional Technologies never
\* appear in missing.
C18_MissingExactlyEmpty ==
    validation.done =>
        LET n == _normalize_activity_keys(validation.input)
            AbsentOrEmpty(f) == ~HasKey(n, f) \/ GetItem(n, f) \in {"None", "''", "[]"}
        IN  /\ validation.ok <=> \A f \in NineRequired : ~AbsentOrEmpty(f)
            /\ Elements(validation.missing) = {f \in NineRequired : AbsentOrEmpty(f)}
            /\ "Views" \notin Elements(validation.missing)
            /\ "Additional Technologies" \notin Elements(validation.missing)

\* C19: normalize(normalize(x)) = normalize(x) for every raw record x, and
\* normalize(x) has no legacy synonym among its keys.
C19_NormalizeIdempotent ==
    /\ \A i \in 2..Len(normalized) : normalized[i] = normalized[1]
    /\ \A i \in 1..Len(normalized) : \A k \in 1..Len(normalized[i]) :
           normalized[i][k][1] \notin LegacySynonyms

C19_Witness ==
    /\ Len(normalized) = 2
    /\ HasKey(activity, "Activity Type")
    /\ HasKey(activity, "Category")
    /\ ~HasKey(activity, "Quantity")
    /\ GetItem(normalized[2], "Quantity") = "1"

\* C20: when a raw record has both a legacy synonym and its canonical name,
\* the normalized record carries the value given under the canonical name,
\* whichever of the two keys comes first.
C20_CanonicalWins ==
    Len(normalized) >= 1 =>
        \A l \in LegacySynonyms :
            (HasKey(activity, l) /\ HasKey(activity, mapping[l])) =>
                GetItem(normalized[1], mapping[l]) = GetItem(activity, mapping[l])

\* the Quantity of a record is absent, None or the empty string
QuantityUnset(d) == ~HasKey(d, "Quantity") \/ GetItem(d, "Quantity") \in {"None", "''"}

\* C21: normalize sets Quantity to 1 exactly when Quantity is absent, None
\* or the empty string and leaves every other Quantity value unchanged; so
\* validate never reports Quantity missing for a record whose Quantity is
\* absent or empty.
C21_QuantityDefault ==
    /\ Len(normalized) >= 1 =>
           /\ HasKey(normalized[1], "Quantity")
           /\ GetItem(normalized[1], "Quantity") =
                  IF QuantityUnset(activity) THEN "1"
                  ELSE GetItem(activity, "Quantity")
    /\ (validation.done /\ QuantityUnset(validation.input)) =>
           "Quantity" \notin Elements(validation.missing)

\* a record without Quantity: validate, called on the raw record, reported
\* it complete, and normalize gave it the Quantity 1
C21_Witness ==
    /\ validation.done
    /\ validation.input = activity
    /\ ~HasKey(activity, "Quantity")
    /\ validation.ok
    /\ Len(normalized) >= 1
    /\ GetItem(normalized[1], "Quantity") = "1"

(***************************************************************************)
(* Properties of _choose_tech_areas (specification MatchSpec)              *)
(***************************************************************************)
\* a text: a sequence of characters, the empty string included
IsText(x) == \A i \in 1..Len(x) : \E k \in 1..Len(CodePoints) : CodePoints[k] = x[i]

\* the list mainChoice is chosen from
MainSource == IF tech_options.primary = <<>> THEN tech_options.additional
              ELSE tech_options.primary

\* the score of an option for the title and the description of the call
ScoreHere(o) == ScoreOf[title, description][o]

\* the options of lst in the order of their scores, equal scores in list order
RECURSIVE ByScoreThenPlace(_)
ByScoreThenPlace(lst) ==
    IF lst = <<>> THEN <<>>
    ELSE LET i == CHOOSE i \in 1..Len(lst) :
                     /\ \A k \in 1..Len(lst) : ScoreHere(lst[k]) <= ScoreHere(lst[i])
                     /\ \A k \in 1..(i - 1) : ScoreHere(lst[k]) < ScoreHere(lst[i])
         IN  <<lst[i]>> \o ByScoreThenPlace(Without(lst, i))

\* the distinct options of the pool, additional first and then primary,
\* without mainChoice
PoolWithoutMain ==
    LET both == tech_options.additional \o tech_options.primary
        others == SelectSeq(both, LAMBDA o : o # choice.main)
    IN  IF others = <<>> THEN <<>> ELSE AppendDistinct(others, <<>>, Len(others))

\* C22: for every title, description and option set, choose returns exactly
\* two additionalChoices slots, each a string (possibly empty, never null),
\* and a non-empty mainChoice whenever primary or additional holds an option.
C22_TwoSlots ==
    choice.done =>
        /\ Len(choice.additional) = 2
        /\ \A i \in 1..Len(choice.additional) :
               choice.additional[i] # PyNone /\ IsText(choice.additional[i])
        /\ choice.main # PyNone /\ IsText(choice.main)
        /\ (tech_options.primary # <<>> \/ tech_options.additional # <<>>) =>
               choice.main # <<>>

\* no primary option and one additional option: it is the main choice and
\* both slots are empty strings
C22_Witness ==
    /\ choice.done
    /\ tech_options = [primary |-> <<>>, additional |-> <<OptPython>>]
    /\ choice.main = OptPython
    /\ choice.additional = <<(<<>>), (<<>>)>>

\* C23: mainChoice is the highest-scoring option of primary (of additional
\* when primary is empty); of several options with the highest score the
\* one that comes first in the list is chosen, and when no option scores
\* above zero the first option of the list is chosen.
C23_MainFirstBest ==
    (choice.done /\ MainSource # <<>>) =>
        choice.main = ByScoreThenPlace(MainSource)[1]

\* C24: the additionalChoices are the two highest-scoring distinct options
\* of the pool (additional first, then primary) without mainChoice, equal
\* scores in list order; every non-empty slot is an option of the set,
\* differs from mainChoice and from the other slot, and a slot is empty only
\* when the pool without mainChoice has fewer than two distinct options.
C24_AdditionalTopTwo ==
    choice.done =>
        LET ranked == ByScoreThenPlace(PoolWithoutMain)
            slots == choice.additional
        IN  /\ slots = PadToTwo(SubSeq(ranked, 1, Min(2, Len(ranked))))
            /\ \A i \in 1..Len(slots) :
                   slots[i] # <<>> =>
                       /\ InList(slots[i], tech_options.additional \o tech_options.primary)
                       /\ slots[i] # choice.main
                       /\ \A k \in 1..Len(slots) : k # i => slots[k] # slots[i]
            /\ (\E i \in 1..Len(slots) : slots[i] = <<>>) => Len(PoolWithoutMain) < 2

\* C25: for the title "Intro to Azure Functions", a description mentioning
\* "Python" and "serverless", primary = ["Cloud Computing", "Web
\* Development"] and additional = ["Python", "JavaScript"], choose returns
\* the mainChoice "Cloud Computing" and additionalChoices with "Python".
C25_Scenario ==
    (/\ choice.done
     /\ title = TitleAzure
     /\ description = DescPython
     /\ tech_options = [primary |-> <<OptCloud, OptWeb>>,
                        additional |-> <<OptPython, OptJavaScript>>]) =>
        /\ choice.main = OptCloud
        /\ InList(OptPython, choice.additional)

C25_Witness ==
    /\ choice.done
    /\ title = TitleAzure
    /\ description = DescPython
    /\ tech_options = [primary |-> <<OptCloud, OptWeb>>,
                       additional |-> <<OptPython, OptJavaScript>>]
    /\ choice.main = OptCloud
    /\ choice.additional[1] = OptPython

(***************************************************************************)
(* Properties of _CacheStore (specification CacheSpec)                     *)
(***************************************************************************)
\* `d[k1][k2]...` exists, for a path of keys through nested dicts
RECURSIVE HasPath(_, _)
HasPath(v, path) ==
    \/ path = <<>>
    \/ /\ v.kind = "dict"
       /\ HasKey(v.val, Head(path))
       /\ HasPath(GetItem(v.val, Head(path)), Tail(path))

\* C26: after set(section, K, v), get(section, K) returns exactly v until
\* the next set on the same section and key, whatever other set calls
\* (other keys, other sections), get calls and save calls (successful or
\* failing) happen in between.
C26_RoundTrip ==
    /\ (cache_ret.op = "get" /\ HasKey(written, <<cache_ret.section, cache_ret.key>>)) =>
           /\ ~cache_ret.raised
           /\ cache_ret.value = GetItem(written, <<cache_ret.section, cache_ret.key>>)
    /\ \A i \in 1..Len(written) :
           LET r == get(data, written[i][1][1], written[i][1][2])
           IN  ~r.raised /\ r.value = written[i][2]

\* 'a' is read back under ('private_desc', 'k1') after a set of 'b' under
\* another key of the section and with a file other than the data
C26_Witness ==
    /\ cache_ret.op = "get"
    /\ cache_ret.section = Name("private_desc")
    /\ cache_ret.key = Name("k1")
    /\ cache_ret.value = JStr(<<"a">>)
    /\ written = << <<(<<Name("private_desc"), Name("k1")>>), JStr(<<"a">>)>>,
                    <<(<<Name("private_desc"), Name("k2")>>), JStr(<<"b">>)>> >>
    /\ cache_file # FileHolds(data)

\* C27: constructing the cache never fails and always leaves the structural
\* sections present, for every state of the file: missing, not decodable,
\* and decodable but of another shape (a non-mapping value under
\* 'dropdowns' or 'tech_options'); afterwards dropdowns.tech_options.primary,
\* dropdowns.tech_options.additional and dropdowns.target_audience exist.
C27_ConstructorTotal ==
    cache_ret.op = "init" =>
        /\ ~cache_ret.raised
        /\ HasPath(data, <<Name("dropdowns"), Name("tech_options"), Name("primary")>>)
        /\ HasPath(data, <<Name("dropdowns"), Name("tech_options"), Name("additional")>>)
        /\ HasPath(data, <<Name("dropdowns"), Name("target_audience")>>)

(***************************************************************************)
(* Properties of ensure_private_descriptions, save and _hash               *)
(* (specification EnrichSpec)                                              *)
(***************************************************************************)
\* the turns of the loop that gave a record its notes
Enriched(i) == gen_log[i].turn \in {"cached", "generated"}
Generated(i) == gen_log[i].turn = "generated"

\* C28: a write that fails does not stop the run.  save never raises; after
\* every generating turn, whatever became of the write, the record has the
\* sanitized text of the generator, the cache in memory holds that text
\* under the record's key, and the loop is at the next record.
C28_FailedSaveHarmless ==
    /\ cache_ret.op = "save" => ~cache_ret.raised
    /\ Len(gen_log) = rec_i
    /\ \A i \in 1..rec_i :
           Generated(i) =>
               /\ recs[i].notes = _sanitize_private_description(gen_log[i].raw,
                                                                DefaultMaxLen)
               /\ get(data, Name("private_desc"), KeyOf(recs[i])).value
                      = JStr(recs[i].notes)

\* two records were given generated notes, the first write failing after it
\* had truncated the file and the second being refused
C28_Witness ==
    /\ rec_i = 2
    /\ Generated(1) /\ gen_log[1].write = "truncated"
    /\ Generated(2) /\ gen_log[2].write = "refused"
    /\ cache_file = FileGarbage
    /\ recs[1].notes = <<"a", ".">>
    /\ recs[2].notes = <<"b", "|", "c", ".">>

\* C29: two records with the same Title and Description that both came
\* without notes: the generator is called for at most one of them, and both
\* have the same Internal Notes at the end of the stage.
C29_SameInputSameNotes ==
    \A i, j \in 1..rec_i :
        (/\ i < j
         /\ rec_i = Len(recs)
         /\ Enriched(i) /\ Enriched(j)
         /\ recs[i].Title = recs[j].Title
         /\ recs[i].Description = recs[j].Description) =>
            /\ ~(Generated(i) /\ Generated(j))
            /\ recs[i].notes = recs[j].notes

\* C30: two records whose (Title, Description) pairs differ never have the
\* same cache key.
C30_NoSharedKey ==
    \A i, j \in 1..rec_i :
        <<recs[i].Title, recs[i].Description>> # <<recs[j].Title, recs[j].Description>>
            => KeyOf(recs[i]) # KeyOf(recs[j])

(***************************************************************************)
(* Properties of run_automation (specification RunSpec)                    *)
(***************************************************************************)
EndOf(seq) == seq[Len(seq)]

\* the place of position i in the sequence of positions, 0 when absent
PlaceIn(seq, i) ==
    IF \E k \in 1..Len(seq) : seq[k] = i
    THEN CHOOSE k \in 1..Len(seq) : seq[k] = i
    ELSE 0

\* C12: a record that still fails after its retries are exhausted does not
\* abort the run: the next valid record is started, or the run completes
\* when there is none.  The one exception is an interactive run not in fast
\* mode in which the operator answers the prompt with something other than
\* 'y' (the answer is compared in lower case; a prompt that cannot be read
\* counts as 'y'): then no further record is started and the executor is
\* not invoked again.
C12_FailureDoesNotAbort ==
    [][/\ (pc = "orch_except" /\ retry = max_activity_retries - 1) =>
              /\ status'[act] = "failed"
              /\ pc' = IF interactive /\ ~fast_mode THEN "ask_continue"
                       ELSE "next_activity"
       /\ pc = "ask_continue" =>
              LET declines == ~answer'.raised /\ lower(answer'.typed) # <<"y">>
              IN  /\ pc' = IF declines THEN "cleanup" ELSE "next_activity"
                  /\ (outcome' = "declined") <=> declines
       /\ (pc = "next_activity" /\ act >= 1 /\ status[act] = "failed") =>
              LET k == PlaceIn(valid_activities, act)
              IN  IF k < Len(valid_activities)
                  THEN /\ pc' = "submit"
                       /\ act' = valid_activities[k + 1]
                       /\ started' = Append(started, act')
                  ELSE /\ pc' = "cleanup"
                       /\ outcome' = "completed"
       /\ outcome = "declined" =>
              /\ interactive /\ ~fast_mode
              /\ status[act] = "failed"
              /\ started' = started
              /\ call' = call
              /\ pc' = "closed"
      ]_vars

\* the first record failed, the operator was asked and answered 'y' or 'Y'
\* (or the prompt could not be read), and the second record was started
C12_Witness ==
    /\ pc = "submit"
    /\ interactive /\ ~fast_mode
    /\ valid_activities = <<1, 2>>
    /\ started = <<1, 2>>
    /\ status = <<"failed", "pending">>

\* C13: records are dispatched in the order the parser returned them, in
\* sequential and in batched mode alike: batches are taken in partition
\* order and records in their order within the batch, so the records
\* started are at all times a prefix of the valid records in parse order,
\* and the executor works on the record started last.
C13_ParseOrder ==
    /\ \A k \in 1..Len(started) :
           /\ k <= Len(valid_activities)
           /\ started[k] = valid_activities[k]
    /\ \A k \in 2..Len(valid_activities) :
           valid_activities[k - 1] < valid_activities[k]
    /\ pc \in {"submit", "submitted", "orch_except", "orch_sleep", "ask_continue"} =>
           /\ started # <<>>
           /\ act = EndOf(started)
           /\ act = batches[batch_num][batch_j]
    /\ call.invokes > 0 => started # <<>> /\ act = EndOf(started)

C13_Witness ==
    /\ process_mode = "batched"
    /\ batch_size = 1
    /\ batch_num = 2
    /\ started = <<1, 2>>
    /\ pc = "submitted"
    /\ status[1] = "failed"

\* the elements a decoded list can hold, before and after enrichment
DecodedElements ==
    {Element(tok) : tok \in ElementTokens} \cup
    {[kind |-> "dict", items |-> SetItem(SampleRecord(tok), "Internal Notes", "'n'")] :
        tok \in ElementTokens \ {"5"}}

\* whether an element is a record that passes validation, tabulated
Passes ==
    [e \in DecodedElements |->
        /\ e.kind = "dict"
        /\ validate_activity_data(_normalize_activity_keys(e.items)).ok]

RecordOk(i) == Passes[activities.elems[i]]

\* the positions of the records that pass validation, in parse order
PassingRecords ==
    SelectSeq([i \in 1..Len(activities.elems) |-> i], LAMBDA i : RecordOk(i))

\* C14: every execution of the run closes the executor agent exactly once,
\* as its last action, on every exit path: normal completion, no valid
\* record, the operator declining, a parse failure, an exception in any
\* stage.  Each of these ends leads to the close and to nothing else, and
\* nothing is done after the close.
C14_ClosedOnce ==
    [][/\ pc # "closed"
       /\ closes'.agent = IF pc' = "closed" THEN 1 ELSE 0
       /\ pc' = "closed" => /\ pc = "cleanup"
                            /\ mcp_tools' = "None"
                            /\ closes'.mcp = IF mcp_tools = "None" THEN 0 ELSE 1
       /\ outcome' # "running" => pc' \in {"cleanup", "closed"}
       /\ pc' \in {"cleanup", "closed"} => outcome' # "running"
       /\ pc = "cleanup" => pc' = "closed"
      ]_vars

\* the parser raised after the connection was made, and the run closed it
C14_Witness ==
    /\ pc = "closed"
    /\ outcome = "critical"
    /\ activities_json = NotParsed
    /\ closes = [agent |-> 1, mcp |-> 1]

\* C15: a record that fails validation is never passed to submit_activity,
\* and its presence does not stop the run: the records started are at all
\* times the first of the records that pass validation, and a run ends with
\* every one of them started unless the operator declined or an exception
\* ended it.
C15_InvalidSkipped ==
    /\ started # <<>> =>
           LET passing == PassingRecords
           IN  \A k \in 1..Len(started) :
                   /\ k <= Len(passing)
                   /\ started[k] = passing[k]
    /\ (pc = "closed" /\ outcome \in {"completed", "no_valid"}) =>
           started = PassingRecords

C15_Witness ==
    /\ pc = "closed"
    /\ outcome = "completed"
    /\ status = <<"invalid", "success">>
    /\ started = <<2>>

\* C16: when no record passes validation the run ends normally with the
\* "Aborted" message: nothing is raised, the dispatch loop is not entered,
\* the executor is never invoked, and cleanup still runs.
C16_NoValidAborts ==
    (/\ pc \notin {"initialize", "parse", "decode", "enrich", "validate"}
     /\ activities.type = "list"
     /\ enrich_i = Len(activities.elems)
     /\ PassingRecords = <<>>) =>
        /\ outcome = "no_valid"
        /\ pc \in {"cleanup", "closed"}
        /\ pc = "closed" => closes.agent = 1
        /\ batches = <<>>
        /\ started = <<>>
        /\ call.invokes = 0

C16_Witness ==
    /\ pc = "closed"
    /\ outcome = "no_valid"
    /\ Len(activities.elems) = 2
    /\ status = <<"invalid", "invalid">>
    /\ closes.agent = 1

\* the parser's answer cannot be decoded, or decodes to something other
\* than a list of records
Uninterpretable ==
    /\ activities_json # NotParsed
    /\ pc \notin {"parse", "decode"}
    /\ \/ activities_json.type # "str"
       \/ LET r == loads(_extract_json_array(activities_json.text))
          IN  \/ r.error
              \/ r.type # "list"
              \/ \E i \in 1..Len(r.elems) : Element(r.elems[i]).kind # "dict"

\* C17: when the parser's output cannot be decoded as JSON or does not
\* decode to a list of records, the run stops at the parse stage: no
\* enrichment, no description-generator call, no cache write, no executor
\* invocation; the failure does not escape run_automation.
C17_ParseFailureStops ==
    Uninterpretable =>
        /\ pc \in {"cleanup", "closed"}
        /\ outcome = "parse_failed"
        /\ enrich_i = 0
        /\ gen_calls = 0
        /\ cache_sets = 0
        /\ call.invokes = 0

(***************************************************************************)
(* Properties of enforce_char_limits and of the stages before dispatch     *)
(* (specification LimitSpec)                                               *)
(***************************************************************************)
\* the records whose Description enforce_char_limits has replaced
Rewritten == {gen_log[n].i : n \in {m \in 1..Len(gen_log) : gen_log[m].stage = "desc850"}}

\* t ends with '.', '!' or '?'
EndsWithStop(t) == t # <<>> /\ t[Len(t)] \in {".", "!", "?"}

\* C31: for every record whose Description was longer than 1000 characters,
\* the Description stored after enforce_char_limits has at most 850
\* characters and ends with '.', '!' or '?', whether it came from the cache,
\* from any text of the generator, or from the fallback after a failure.
C31_RewrittenDescription ==
    \A i \in Rewritten :
        LET d == GetText(recs[i], "Description")
        IN  /\ d # PyNone
            /\ Len(d) <= TargetLen
            /\ EndsWithStop(d)

\* the entries of gen_log of one stage
TurnsOf(stage) == {gen_log[n] : n \in {m \in 1..Len(gen_log) : gen_log[m].stage = stage}}

\* every call of the generator made so far has failed
EveryCallFailed == \A n \in 1..Len(gen_log) : gen_log[n].source # "generator"

\* C32: if every call of the text generator fails, the run does not fail
\* and loses no record because of it: the stages do not raise, every record
\* that lacked notes has non-empty Internal Notes from the fallback, every
\* over-long Description or notes that was to be rewritten is replaced by a
\* non-empty shorter text, and every record with a Description is handed on.
C32_GeneratorFailureTolerated ==
    EveryCallFailed =>
        /\ limit_pc # "raised"
        /\ \A e \in TurnsOf("notes") :
               ~TextFalsy(PyOr(GetText(recs[e.i], "Internal Notes"),
                               GetText(recs[e.i], "Private Description")))
        /\ \A e \in TurnsOf("desc850") :
               LET d == GetText(recs[e.i], "Description")
               IN  ~TextFalsy(d) /\ Len(d) <= HardLimit
        /\ \A e \in TurnsOf("pdesc850") :
               LET n == GetText(recs[e.i], "Internal Notes")
               IN  ~TextFalsy(n) /\ Len(n) <= HardLimit
        /\ limit_pc = "handed" =>
               Len(handed) = Cardinality({i \in 1..Len(recs) :
                                 ~TextFalsy(GetText(recs[i], "Description"))})

\* two records without notes and with an over-long Description went through
\* the stages with a failing generator, and both are handed on
C32_Witness ==
    /\ EveryCallFailed
    /\ limit_pc = "handed"
    /\ \E e \in TurnsOf("notes") : e.source = "fallback"
    /\ \E e \in TurnsOf("desc850") : e.source = "fallback"
    /\ Len(recs) >= 2
    /\ Len(handed) = Len(recs)

\* notes that were too long went through the stages with a failing generator
C32_NotesWitness ==
    /\ EveryCallFailed
    /\ limit_pc = "handed"
    /\ \E e \in TurnsOf("pdesc850") : e.source = "fallback"
    /\ Len(handed) = Len(recs)

\* C40: every record handed on for dispatch has a Description and Internal
\* Notes of at most 1000 characters, the cache having started empty,
\* whatever mix of 'Private Description' and 'Internal Notes' keys the
\* parsed record carried and in whatever order.
C40_HandedWithinLimits ==
    \A i \in 1..Len(handed) :
        /\ ~OverLong(GetText(handed[i], "Description"))
        /\ ~OverLong(GetText(handed[i], "Internal Notes"))

(***************************************************************************)
(* Properties of the preparation in submit_activity (specification         *)
(* PrepSpec)                                                               *)
(***************************************************************************)
\* C33: submit works on its own copy of the record: after any submit call
\* the mapping the orchestrator holds has the keys and values it had before,
\* so every one of the orchestrator's submit calls for the record gets the
\* same input.
C33_RecordUntouched ==
    given # <<>> =>
        /\ heap[reviewed] = given[1]
        /\ heap[1] = given[1]
        /\ \A i \in 1..Len(given) : given[i] = given[1]

\* three submit calls were made for a record, and the last one sent a
\* working copy that differs from the record it was given
C33_Witness ==
    /\ Len(given) = max_activity_retries
    /\ ~sent[3].raised
    /\ sent[3].activity_data # given[3]
    /\ GetItem(sent[3].activity_data, "Main Technology") # GetItem(given[3], "Main Technology")

\* C34: in the data a submit call sends, Main Technology is one of the
\* options (primary and additional) whenever there are any, Additional
\* Technologies has exactly two slots, and every non-empty slot is an option
\* that differs from the other slot and from Main Technology; for every
\* option set, also with entries that differ only in letter case or contain
\* one another.
C34_SentTechnologies ==
    \A n \in 1..Len(sent) :
        ~sent[n].raised =>
            LET d == sent[n].activity_data
                pool == tech_options.primary \o tech_options.additional
                main == GetItem(d, "Main Technology").val
                slots == GetItem(d, "Additional Technologies").val
            IN  /\ pool # <<>> => InList(main, pool)
                /\ Len(slots) = 2
                /\ \A k \in 1..Len(slots) :
                       slots[k].val # <<>> =>
                           /\ InList(slots[k].val, pool)
                           /\ slots[k].val # main
                           /\ \A j \in 1..Len(slots) : j # k => slots[j] # slots[k]

====
